---- MODULE Spec2Model ----
(***************************************************************************)
(* Website change monitor: BFS crawler (scraper/crawler.py), per-URL       *)
(* change-detection pipeline (scraper/core.py), JSON entity store          *)
(* (scraper/storage.py) and the job body of the scheduler                  *)
(* (scraper/scheduler.py).                                                 *)
(***************************************************************************)
EXTENDS Integers, Sequences, FiniteSets, TLC

VARIABLES
    site,        \* the monitored web site: links, HTTP status, text, robots verdict per URL
    domains,     \* Domains record set (domains.json)
    pages,       \* Pages record set (pages.json), in file order
    changes,     \* Changes record set (changes.json), in file order
    runs,        \* ScrapeRuns record set (runs.json), in file order
    files,       \* FileRecords record set
    snapdir,     \* snapshot directory of the host: the files sorted by name, newest last
    uuid,        \* number of ids handed out by uuid.uuid4()
    pc,          \* position of the job thread: "idle", "crawl", "done"
    cur,         \* arguments of the crawl_domain call in progress
    queue,       \* crawl_domain: the frontier deque of (url, depth)
    visited,     \* crawl_domain: the visited set
    stats,       \* crawl_domain: the statistics dict
    calls,       \* history: the scrape_url / download_file calls of the current crawl
    before,      \* history: the Pages record set when the current crawl started
    repeat,      \* history: the current crawl repeats the previous one on an unchanged site
    escaped,     \* history: an exception left scrape_url
    runsLeft,    \* crawls still allowed by the bound
    editsLeft,   \* site edits still allowed by the bound
    faultsLeft,  \* injected failures still allowed by the bound
    thr,         \* store threads: position, operation and loaded copy of each
    acked,       \* history: ids returned by the add_change calls that completed
    outbox,      \* history: the alerts handed to the Notifier and how each ended
    fstate,      \* the backing file of the Domains record set: "ok", "missing", "corrupt"
    file_lock,   \* storage.file_lock is held
    sv,          \* the save_json call in progress
    ret,         \* history: the last store call on Domains and what it returned
    jobs,        \* the job store of the BackgroundScheduler
    active_jobs, \* scheduler.active_jobs: the job ids the module registered
    scheduled,   \* history: the interval of the latest schedule_domain call per domain
    inst,        \* the executions of scrape_domain_job in progress
    now,         \* the clock, in hours
    digest,      \* history: the last digest that generate_daily_digest built
    alertdir,    \* the report files written to the alerts directory
    pure         \* the arguments and the result of a call of a pure function

vars == <<site, domains, pages, changes, runs, files, snapdir, uuid, pc, cur,
          queue, visited, stats, calls, before, repeat, escaped,
          runsLeft, editsLeft, faultsLeft, thr, acked, outbox,
          fstate, file_lock, sv, ret, jobs, active_jobs, scheduled, inst, now, digest,
          alertdir, pure>>

\* every variable but the call of a pure function
progVars == <<site, domains, pages, changes, runs, files, snapdir, uuid, pc, cur,
              queue, visited, stats, calls, before, repeat, escaped,
              runsLeft, editsLeft, faultsLeft, thr, acked, outbox,
              fstate, file_lock, sv, ret, jobs, active_jobs, scheduled, inst, now, digest,
              alertdir>>

fileVars == <<fstate, file_lock, sv, ret>>
schedVars == <<jobs, active_jobs, scheduled, inst>>
digestVars == <<now, digest>>

----------------------------------------------------------------------------
(* Bounds *)

MaxRuns == 2
MaxEdits == 1
MaxFaults == 1
MaxDepth == 2
MaxPagesLimit == 3
MaxOps == 3
MaxIds == 3
MaxTicks == 3
MaxUrlLen == 4
MaxHostLen == 6
MaxBaseLen == 2
MaxSiblings == 2

----------------------------------------------------------------------------
(* URLs.  A URL is named by a string; HostOf and PathOf give the netloc and *)
(* the path that urlparse returns for it, the path as a sequence of         *)
(* characters.                                                              *)

\* None, for a string and for an id
None == "None"
NoId == 0

Root == "https://a.com/"
PageB == "https://a.com/b"
PagePdf == "https://a.com/pdf"
FileD == "https://a.com/d.PDF"
External == "https://other.com/"

SiteUrls == {Root, PageB, PagePdf, FileD}
Hrefs == SiteUrls \cup {External}

HostOf(u) ==
    IF u = External THEN <<"o", "t", "h", "e", "r", ".", "c", "o", "m">>
    ELSE <<"a", ".", "c", "o", "m">>

PathOf(u) ==
    CASE u = Root -> <<"/">>
      [] u = PageB -> <<"/", "b">>
      [] u = PagePdf -> <<"/", "p", "d", "f">>
      [] u = FileD -> <<"/", "d", ".", "P", "D", "F">>
      [] OTHER -> <<"/">>

LowerChar(c) ==
    CASE c = "P" -> "p"
      [] c = "D" -> "d"
      [] c = "F" -> "f"
      [] OTHER -> c

Lower(s) == [i \in 1..Len(s) |-> LowerChar(s[i])]

EndsWith(s, suffix) ==
    /\ Len(suffix) <= Len(s)
    /\ SubSeq(s, Len(s) - Len(suffix) + 1, Len(s)) = suffix

file_extensions ==
    { <<".", "p", "d", "f">>, <<".", "d", "o", "c">>, <<".", "d", "o", "c", "x">>,
      <<".", "x", "l", "s">>, <<".", "x", "l", "s", "x">>, <<".", "p", "p", "t">>,
      <<".", "p", "p", "t", "x">>, <<".", "z", "i", "p">>, <<".", "r", "a", "r">>,
      <<".", "t", "a", "r">>, <<".", "g", "z">>, <<".", "j", "p", "g">>,
      <<".", "j", "p", "e", "g">>, <<".", "p", "n", "g">>, <<".", "g", "i", "f">>,
      <<".", "s", "v", "g">>, <<".", "m", "p", "4">>, <<".", "m", "p", "3">>,
      <<".", "a", "v", "i">>, <<".", "m", "o", "v">>, <<".", "t", "x", "t">>,
      <<".", "j", "s", "o", "n">>, <<".", "x", "m", "l">>, <<".", "c", "s", "v">> }

is_file_url(url) ==
    LET path == Lower(PathOf(url))
    IN  \E ext \in file_extensions : EndsWith(path, ext)

\* str.replace(old, ''): every occurrence of old is removed, left to right
RECURSIVE replace(_, _)
replace(s, old) ==
    IF Len(s) < Len(old) THEN s
    ELSE IF SubSeq(s, 1, Len(old)) = old THEN replace(SubSeq(s, Len(old) + 1, Len(s)), old)
    ELSE <<Head(s)>> \o replace(Tail(s), old)

www == <<"w", "w", "w", ".">>

\* the comparison is_same_domain makes of the two netlocs
same_netloc(netloc1, netloc2) == replace(netloc1, www) = replace(netloc2, www)

is_same_domain(url1, url2) == same_netloc(HostOf(url1), HostOf(url2))

\* domain_name = urlparse(url).netloc.replace(':', '_'), the name of the
\* directory of the snapshots and of the attachments of a URL
domain_name(url) ==
    [i \in 1..Len(HostOf(url)) |-> IF HostOf(url)[i] = ":" THEN "_" ELSE HostOf(url)[i]]

compute_hash(text) == <<"sha256", text>>

\* discover_links: the same-domain anchors of a stored HTML document, as a set
discover_links(html, base_url) ==
    {h \in html.hrefs : is_same_domain(h, base_url)}

(* A URL given as text is the token "https://" followed by its characters. *)

Delimiters == {"/", "?", "#"}

\* the longest prefix of s without a character of stop
RECURSIVE Before(_, _)
Before(s, stop) ==
    IF s = <<>> \/ Head(s) \in stop THEN <<>>
    ELSE <<Head(s)>> \o Before(Tail(s), stop)

\* what follows the first character of stop in s
After(s, stop) ==
    LET n == Len(Before(s, stop))
    IN  IF n + 1 >= Len(s) THEN <<>> ELSE SubSeq(s, n + 2, Len(s))

\* urllib.parse.urlparse: the netloc ends at the first of / ? #, the fragment
\* starts at the first #, the query at the first ? before it
urlparse(url) ==
    LET rest == Tail(url)
        netloc == Before(rest, Delimiters)
        tail == SubSeq(rest, Len(netloc) + 1, Len(rest))
        nofrag == Before(tail, {"#"})
    IN  [scheme |-> Head(url), netloc |-> netloc,
         path |-> Before(nofrag, {"?"}), query |-> After(nofrag, {"?"}),
         fragment |-> After(tail, {"#"})]

\* urllib.parse.urlunparse: an empty query or fragment is left out with its mark
urlunparse(parts) ==
    LET path == IF parts.path # <<>> /\ Head(parts.path) # "/"
                THEN <<"/">> \o parts.path ELSE parts.path
    IN  <<parts.scheme>> \o parts.netloc \o path
        \o (IF parts.query # <<>> THEN <<"?">> \o parts.query ELSE <<>>)
        \o (IF parts.fragment # <<>> THEN <<"#">> \o parts.fragment ELSE <<>>)

normalize_url(url) ==
    LET parsed == urlparse(url)
        normalized == urlunparse([parsed EXCEPT !.fragment = <<>>])
    IN  IF /\ EndsWith(normalized, <<"/">>)
           /\ normalized # <<parsed.scheme>> \o parsed.netloc \o <<"/">>
        THEN SubSeq(normalized, 1, Len(normalized) - 1)
        ELSE normalized

\* the orders in which list(links) can enumerate a set
Orderings(S) ==
    {s \in [1..Cardinality(S) -> S] : \A i, j \in 1..Cardinality(S) : i # j => s[i] # s[j]}

Range(s) == {s[i] : i \in 1..Len(s)}

----------------------------------------------------------------------------
(* The monitored site *)

Chain ==
    [u \in SiteUrls |->
        CASE u = Root -> {PageB, External}
          [] u = PageB -> {PagePdf}
          [] OTHER -> {}]

Star ==
    [u \in SiteUrls |->
        CASE u = Root -> {PageB, PagePdf, FileD}
          [] OTHER -> {}]

Dense ==
    [u \in SiteUrls |-> IF u = FileD THEN {} ELSE SiteUrls]

Graphs == {Chain, Star, Dense}

HttpOk == 200
\* 404, a status other than 200
HttpNotFound == HttpOk + 204

\* how the GET of robots.txt ends: the file is served, an HTTP error status, or
\* no connection
RobotsOutcomes == {"served", "http_403", "http_404", "http_500", "unreachable"}

InitSites ==
    {[links |-> g,
      status |-> [u \in SiteUrls |-> HttpOk],
      text |-> [u \in SiteUrls |-> 1],
      disallowed |-> {},
      robots |-> "served"] : g \in Graphs}

PageUrls == {u \in SiteUrls : ~is_file_url(u)}

\* the links that appear and disappear
EditableLinks == {Root, PageB} \X {PagePdf, FileD}

ToggleText(s, u) == [s EXCEPT !.text[u] = 3 - @]
ToggleStatus(s, u) == [s EXCEPT !.status[u] = IF @ = HttpOk THEN HttpNotFound ELSE HttpOk]
ToggleLink(s, u, v) == [s EXCEPT !.links[u] = IF v \in @ THEN @ \ {v} ELSE @ \cup {v}]
ToggleRobots(s, u) == [s EXCEPT !.disallowed = IF u \in @ THEN @ \ {u} ELSE @ \cup {u}]
SetRobots(s, outcome) == [s EXCEPT !.robots = outcome]

\* the initial sites and the sites one change away from them
NearSites ==
    InitSites
    \cup {ToggleStatus(s, u) : s \in InitSites, u \in SiteUrls}
    \cup {ToggleRobots(s, u) : s \in InitSites, u \in PageUrls}
    \cup {ToggleLink(s, e[1], e[2]) : s \in InitSites, e \in EditableLinks}

\* RobotFileParser.read: HTTP 401/403 sets disallow_all, another 4xx sets
\* allow_all, a served file is parsed (which sets last_checked); any other HTTP
\* error leaves the parser as constructed, and so does a connection failure,
\* whose exception get_robot_parser_for_domain swallows
get_robot_parser_for_domain(outcome, rules) ==
    [disallow_all |-> outcome = "http_403",
     allow_all |-> outcome = "http_404",
     last_checked |-> outcome = "served",
     entries |-> IF outcome = "served" THEN rules ELSE {}]

\* RobotFileParser.can_fetch("*", url)
can_fetch(rp, url) ==
    IF rp.disallow_all THEN FALSE
    ELSE IF rp.allow_all THEN TRUE
    ELSE IF ~rp.last_checked THEN FALSE
    ELSE url \notin rp.entries

\* allowed_by_robots: the verdict of the cached robots parser of the host
allowed_by_robots_ignored(url) == TRUE

allowed_by_robots(url) ==
    can_fetch(get_robot_parser_for_domain(site.robots, site.disallowed), url)

----------------------------------------------------------------------------
(* Entity store operations (scraper/storage.py).  Each takes the record    *)
(* set it loaded and returns the record set it saves; a new id comes from  *)
(* uuid.uuid4().                                                           *)

\* config.EMAIL_TO
EMAIL_TO == "recipient@gmail.com"

\* the ids that str(uuid.uuid4()) gives a Domain, by the number of the uuid4 call
IdStrings == <<"u1", "u2", "u3", "u4", "u5", "u6", "u7", "u8">>

NoDomain == [id |-> None]

\* add_domain: the Domain it returns and the Domains record set it saves
add_domain(D, new_id, url, interval_minutes, email) ==
    LET domain == [id |-> new_id, url |-> url, interval_minutes |-> interval_minutes,
                   email |-> IF email \in {None, ""} THEN EMAIL_TO ELSE email,
                   is_active |-> TRUE, last_scraped_at |-> NoId]
    IN  [domain |-> domain, domains |-> Append(D, domain)]

get_domain(D, domain_id) ==
    LET hits == {i \in 1..Len(D) : D[i].id = domain_id}
    IN  IF hits = {} THEN NoDomain ELSE D[CHOOSE i \in hits : \A j \in hits : i <= j]

update_domain(D, domain_id, updates) ==
    LET hits == {i \in 1..Len(D) : D[i].id = domain_id}
    IN  IF hits = {} THEN D
        ELSE [D EXCEPT ![CHOOSE i \in hits : \A j \in hits : i <= j] = updates @@ @]

delete_domain_keep(D, domain_id) == D

delete_domain(D, domain_id) == SelectSeq(D, LAMBDA d : d.id # domain_id)

NoPage == [id |-> NoId]

Min(S) == CHOOSE x \in S : \A y \in S : x <= y

get_page_by_url_any_domain(P, domain_id, url) ==
    LET hits == {i \in 1..Len(P) : P[i].url = url}
    IN  IF hits = {} THEN NoPage ELSE P[Min(hits)]

get_page_by_url(P, domain_id, url) ==
    LET hits == {i \in 1..Len(P) : P[i].domain_id = domain_id /\ P[i].url = url}
    IN  IF hits = {} THEN NoPage ELSE P[Min(hits)]

get_page_by_id(P, page_id) ==
    LET hits == {i \in 1..Len(P) : P[i].id = page_id}
    IN  IF hits = {} THEN NoPage ELSE P[Min(hits)]

\* the links a call of add_page leaves out (links=None)
NoLinks == [given |-> FALSE, urls |-> {}]

add_page_append(P, new_id, domain_id, url, title, content_hash, status_code, links, t) ==
    Append(P, [id |-> new_id, domain_id |-> domain_id, url |-> url, title |-> title,
               content_hash |-> content_hash, status_code |-> status_code,
               first_seen |-> t, last_scraped |-> t, last_checked_at |-> <<>>,
               is_active |-> TRUE, links |-> links.urls])

\* t is datetime.now(); a Page that was never updated has no last_checked_at
add_page(P, new_id, domain_id, url, title, content_hash, status_code, links, t) ==
    LET hits == {i \in 1..Len(P) : P[i].domain_id = domain_id /\ P[i].url = url}
    IN  IF hits # {}
        THEN [P EXCEPT ![Min(hits)].title = title,
                       ![Min(hits)].content_hash = content_hash,
                       ![Min(hits)].status_code = status_code,
                       ![Min(hits)].last_checked_at = <<t>>,
                       ![Min(hits)].links = IF links.given THEN links.urls ELSE @]
        ELSE Append(P, [id |-> new_id, domain_id |-> domain_id, url |-> url, title |-> title,
                        content_hash |-> content_hash, status_code |-> status_code,
                        first_seen |-> t, last_scraped |-> t, last_checked_at |-> <<>>,
                        is_active |-> TRUE, links |-> links.urls])

\* the title fix_missing_titles makes from the URL: the URL itself for a bare
\* root path, the last path segment without its extension, in title case, otherwise
title_from_url(url) ==
    CASE url = Root -> Root
      [] url = PageB -> "B"
      [] url = PagePdf -> "Pdf"
      [] url = FileD -> "D"
      [] OTHER -> url

fix_missing_titles(P) ==
    [i \in 1..Len(P) |->
        IF P[i].title = "No Title" THEN [P[i] EXCEPT !.title = title_from_url(P[i].url)]
        ELSE P[i]]

\* None, for a path and for a similarity score
NoPath == <<>>

add_change_first(C, new_id, page_id, run_id, change_type, detected_at, old_snapshot, new_snapshot, diff_path, similarity) ==
    <<[id |-> new_id, page_id |-> page_id, run_id |-> run_id,
       change_type |-> change_type, old_snapshot |-> old_snapshot,
       new_snapshot |-> new_snapshot, diff_path |-> diff_path,
       similarity_score |-> similarity, detected_at |-> detected_at,
       notified |-> FALSE]>> \o C

add_change(C, new_id, page_id, run_id, change_type, detected_at, old_snapshot, new_snapshot, diff_path, similarity) ==
    Append(C, [id |-> new_id, page_id |-> page_id, run_id |-> run_id,
               change_type |-> change_type, old_snapshot |-> old_snapshot,
               new_snapshot |-> new_snapshot, diff_path |-> diff_path,
               similarity_score |-> similarity, detected_at |-> detected_at,
               notified |-> FALSE])

get_run_changes_all(C, run_id) == C

\* return [c for c in data.get('changes', []) if c.get('run_id') == run_id]
get_run_changes(C, run_id) == SelectSeq(C, LAMBDA c : c.run_id = run_id)

\* fix_notification_statuses: every Change that is not flagged becomes flagged
fix_notification_statuses(C) == [i \in 1..Len(C) |-> [C[i] EXCEPT !.notified = TRUE]]

mark_changes_notified(C, change_ids) ==
    [i \in 1..Len(C) |-> IF C[i].id \in change_ids
                         THEN [C[i] EXCEPT !.notified = TRUE] ELSE C[i]]

mark_page_removed(P, page_id) ==
    LET hits == {i \in 1..Len(P) : P[i].id = page_id}
    IN  IF hits = {} THEN P ELSE [P EXCEPT ![Min(hits)].is_active = FALSE]

get_domain_pages(P, domain_id) == SelectSeq(P, LAMBDA p : p.domain_id = domain_id)

RECURSIVE MarkAllRemoved(_, _)
MarkAllRemoved(P, removed) ==
    IF removed = <<>> THEN P
    ELSE MarkAllRemoved(mark_page_removed(P, Head(removed).id), Tail(removed))

detect_removed_pages_unmarked(P, domain_id, current_urls) ==
    LET all_pages == get_domain_pages(P, domain_id)
        active_pages == SelectSeq(all_pages, LAMBDA p : p.is_active)
        removed == SelectSeq(active_pages, LAMBDA p : p.url \notin Range(current_urls))
    IN  [removed |-> removed, pages |-> P]

\* detect_removed_pages: the pages it returns and the Pages record set it leaves
detect_removed_pages(P, domain_id, current_urls) ==
    LET all_pages == get_domain_pages(P, domain_id)
        active_pages == SelectSeq(all_pages, LAMBDA p : p.is_active)
        removed == SelectSeq(active_pages, LAMBDA p : p.url \notin Range(current_urls))
    IN  [removed |-> removed, pages |-> MarkAllRemoved(P, removed)]

NoRun == [id |-> NoId, status |-> None]

get_run(R, run_id) ==
    LET hits == {i \in 1..Len(R) : R[i].id = run_id}
    IN  IF hits = {} THEN NoRun ELSE R[Min(hits)]

create_scrape_run(R, new_id, domain_id) ==
    Append(R, [id |-> new_id, domain_id |-> domain_id, status |-> "running",
               pages_crawled |-> 0, pages_changed |-> 0, pages_new |-> 0,
               error_message |-> None, current_url |-> None])

update_scrape_run(R, run_id, updates) ==
    LET hits == {i \in 1..Len(R) : R[i].id = run_id}
    IN  IF hits = {} THEN R ELSE [R EXCEPT ![Min(hits)] = updates @@ @]

add_file(F, new_id, domain_id, url) ==
    Append(F, [id |-> new_id, domain_id |-> domain_id, url |-> url])

----------------------------------------------------------------------------
(* The change-detection pipeline (scraper/core.py, scrape_url) *)

\* the places of scrape_url where an exception can be raised
FaultPoints == {"delay", "fetch", "parse", "snapshot", "lookup", "add_page", "diff", "add_change"}

KeptSnapshots == 2

\* the seconds of the clock in which snapshots are written
MaxSeconds == 3

\* a fetch writes {timestamp}.txt and {timestamp}.html: open(path, 'w') creates
\* the file or truncates the file of that name; the directory keeps the newest
\* files, which are the ones the program reads back
WriteSnapshot(S, snap) ==
    LET s == Append(SelectSeq(S, LAMBDA f : f.name # snap.name), snap)
    IN  IF Len(s) > KeptSnapshots THEN Tail(s) ELSE s

\* calculate_similarity: the ratio SequenceMatcher gives for the two texts
calculate_similarity(text1, text2) == <<"ratio", text1, text2>>

\* classify_links: the anchors of the fetched document
classify_links(html_content, base_url) == [given |-> TRUE, urls |-> html_content.hrefs]

\* the names the 'modified' branch of scrape_url has assigned when it builds the
\* DOM-level diff; reading any other name raises NameError
assigned_names ==
    {"old_snapshots", "old_snapshot_path", "similarity", "diff_path", "old_text",
     "diff_content", "old_html_content"}

NameError(name) == name \notin assigned_names

\* the body of the try block: the result and the effects up to the place
\* where it returned or raised (exc)
scrape_body(url, domain_id, run_id, fault) ==
    LET base == [status |-> "success", is_new |-> FALSE, changed |-> FALSE, exc |-> "none",
                 delayed |-> FALSE, fetched |-> FALSE,
                 pages |-> pages, changes |-> changes, snapdir |-> snapdir, uuid |-> uuid,
                 alertdir |-> alertdir]
        Raise(r) == [r EXCEPT !.exc = fault]
        waited == [base EXCEPT !.delayed = TRUE]
        got == [waited EXCEPT !.fetched = TRUE]
        title == "No Title"
        text_content == site.text[url]
        content_hash == compute_hash(text_content)
        \* strftime('%Y%m%d_%H%M%S'): the fetch falls in the second after that
        \* of the newest file of the directory
        timestamp == IF snapdir = <<>> THEN 1 ELSE snapdir[Len(snapdir)].name + 1
        snapshot_txt == <<timestamp>>
        snap == [name |-> timestamp, url |-> url, text |-> text_content,
                 hrefs |-> site.links[url]]
        link_classification == classify_links(snap, url)
        saved == [got EXCEPT !.snapdir = WriteSnapshot(snapdir, snap)]
        existing_page == get_page_by_url(pages, domain_id, url)
        updated == add_page(pages, NoId, domain_id, url, title, content_hash, HttpOk,
                            link_classification, now)
    IN
    IF ~allowed_by_robots(url) THEN [base EXCEPT !.status = "blocked"]
    ELSE IF fault = "delay" THEN Raise(base)
    ELSE IF fault = "fetch" THEN Raise(got)
    ELSE IF site.status[url] # HttpOk THEN [got EXCEPT !.status = "error"]
    ELSE IF fault \in {"parse", "snapshot"} THEN Raise(got)
    ELSE IF domain_id = None THEN saved
    ELSE IF fault = "lookup" THEN Raise(saved)
    ELSE IF existing_page = NoPage THEN
        LET fresh == [saved EXCEPT !.is_new = TRUE, !.changed = TRUE]
            added == [fresh EXCEPT
                        !.pages = add_page(pages, uuid + 1, domain_id, url, title, content_hash,
                                           HttpOk, link_classification, now),
                        !.uuid = uuid + 1]
        IN  IF fault = "add_page" THEN Raise(fresh)
            ELSE IF run_id = NoId THEN added
            ELSE IF fault = "add_change" THEN Raise(added)
            ELSE [added EXCEPT
                    !.changes = add_change(changes, uuid + 2, uuid + 1, run_id, "new", now,
                                           NoPath, snapshot_txt, NoPath, NoPath),
                    !.uuid = uuid + 2]
    ELSE IF existing_page.content_hash # content_hash THEN
        LET modif == [saved EXCEPT !.changed = TRUE]
            \* old_snapshots[-2]: the text file before the one just written
            has_old == Len(saved.snapdir) >= 2
            old_snapshot_path == IF has_old
                                 THEN <<saved.snapdir[Len(saved.snapdir) - 1].name>>
                                 ELSE NoPath
            old_text == saved.snapdir[Len(saved.snapdir) - 1].text
            similarity == IF has_old THEN calculate_similarity(old_text, text_content)
                          ELSE NoPath
            \* the inner try reads old_html_snapshot_path; its handler sets
            \* dom_diff_path to None and nothing is written
            dom_diff_path == IF NameError("old_html_snapshot_path") THEN NoPath
                             ELSE <<"dom_diff", existing_page.id>>
            diff_path == IF has_old THEN <<"diff", url>> ELSE NoPath
            reports == IF has_old
                       THEN {diff_path} \cup (IF dom_diff_path = NoPath THEN {} ELSE {dom_diff_path})
                       ELSE {}
            diffed == [modif EXCEPT !.alertdir = alertdir \cup reports]
            stored == [diffed EXCEPT !.pages = updated]
        IN  IF has_old /\ fault = "diff" THEN Raise(modif)
            ELSE IF fault = "add_page" THEN Raise(diffed)
            ELSE IF run_id = NoId THEN stored
            ELSE IF fault = "add_change" THEN Raise(stored)
            ELSE [stored EXCEPT
                    !.changes = add_change(changes, uuid + 1, existing_page.id, run_id,
                                           "modified", now, old_snapshot_path, snapshot_txt,
                                           diff_path, similarity),
                    !.uuid = uuid + 1]
    ELSE IF fault = "add_page" THEN Raise(saved)
    ELSE [saved EXCEPT !.pages = updated]

Caught_requests_only(exc) == exc = "fetch"

\* the exceptions the handler of scrape_url catches: except Exception
Caught(exc) == TRUE

scrape_url_unflagged(url, domain_id, run_id, fault) ==
    LET r == [scrape_body(url, domain_id, run_id, fault) EXCEPT !.is_new = FALSE]
    IN  IF r.exc = "none"
        THEN [raised |-> FALSE, error |-> r.status # "success"] @@ r
        ELSE [raised |-> FALSE, error |-> TRUE] @@ [r EXCEPT !.status = "error"]

scrape_url(url, domain_id, run_id, fault) ==
    LET r == scrape_body(url, domain_id, run_id, fault)
    IN  IF r.exc = "none"
        THEN [raised |-> FALSE, error |-> r.status # "success"] @@ r
        ELSE IF Caught(r.exc)
        THEN [raised |-> FALSE, error |-> TRUE] @@ [r EXCEPT !.status = "error"]
        ELSE [raised |-> TRUE, error |-> FALSE] @@ r

\* download_file: TRUE when it stored the file and returned its path
download_file(url, fault) == fault = "none" /\ site.status[url] = HttpOk

----------------------------------------------------------------------------
(* The BFS crawler (scraper/crawler.py, crawl_domain) *)

DomainIds == {"d1"}
StandaloneIds == {"d2"}
Threads == {1, 2}

ZeroStats ==
    [pages_crawled |-> 0, pages_new |-> 0, pages_modified |-> 0, pages_unchanged |-> 0,
     pages_error |-> 0, files_downloaded |-> 0, urls |-> <<>>]

NoCrawl ==
    [mode |-> "none", domain_id |-> None, run_id |-> NoId, base_url |-> None,
     max_depth |-> 0, max_pages |-> 0]

IdleThread == [pc |-> "idle", op |-> "none", arg |-> NoId, data |-> <<>>, ops |-> 0]

loop_condition_inclusive(q, v, max_pages) == q # <<>> /\ Cardinality(v) <= max_pages

\* while queue and len(visited) < max_pages
loop_condition(q, v, max_pages) == q # <<>> /\ Cardinality(v) < max_pages

Dispatch_pages_only(url) == "scrape_url"

\* if core.is_file_url(url): download_file ... continue; otherwise scrape_url
Dispatch(url) == IF is_file_url(url) THEN "download_file" ELSE "scrape_url"

below_max_depth_inclusive(depth, max_depth) == depth <= max_depth

\* if depth < max_depth: the links of the page are discovered
below_max_depth(depth, max_depth) == depth < max_depth

should_enqueue_unvisited(link, v, q) == link \notin v

\* if link not in visited and link not in [u for u, d in queue]
should_enqueue(link, v, q) ==
    link \notin v /\ link \notin {q[i].url : i \in 1..Len(q)}

RECURSIVE EnqueueAll(_, _, _, _)
EnqueueAll(new_links, q, v, depth) ==
    IF new_links = <<>> THEN q
    ELSE LET link == Head(new_links)
         IN  EnqueueAll(Tail(new_links),
                        IF should_enqueue(link, v, q)
                        THEN Append(q, [url |-> link, depth |-> depth + 1]) ELSE q,
                        v, depth)

\* a failure of scrape_url, or of the append to error.log that follows a failed URL
FaultChoices == IF faultsLeft > 0 THEN FaultPoints \cup {"error_log", "none"} ELSE {"none"}

\* the interval of a Domain added without one
DefaultInterval == 60

DomainPool == {"d1"} \cup Range(IdStrings)

\* f"domain_{domain_id}"
job_id(domain_id) == <<"domain", domain_id>>

NoSave == [pc |-> "idle", i |-> 0, attempts |-> 0, ok_at |-> 0, data |-> <<>>]
NoCall == [op |-> "none"]
NoDigest == [at |-> 0, seen |-> 0, total_changes |-> 0, domains |-> <<>>]
NotScheduled == [interval |-> 0, replaced |-> 0]
NoInput == [fn |-> "none"]

\* the state after start-up: an empty store, no crawl in progress, the recurring
\* job of the active domain registered
InitProgram(sites, depths, limits, crawls, faults) ==
    /\ site \in sites
    /\ \E crawl_depth \in depths, max_pages \in limits :
          domains = <<[id |-> "d1", url |-> Root, interval_minutes |-> DefaultInterval,
                       email |-> EMAIL_TO, is_active |-> TRUE,
                       crawl_depth |-> crawl_depth, max_pages |-> max_pages,
                       last_scraped_at |-> NoId]>>
    /\ pages = <<>> /\ changes = <<>> /\ runs = <<>> /\ files = <<>>
    /\ snapdir = <<>> /\ uuid = 0
    /\ pc = "idle" /\ cur = NoCrawl
    /\ queue = <<>> /\ visited = {} /\ stats = ZeroStats
    /\ calls = <<>> /\ before = <<>> /\ repeat = FALSE /\ escaped = FALSE
    /\ runsLeft = crawls /\ editsLeft = MaxEdits /\ faultsLeft = faults
    /\ thr = [t \in Threads |-> IdleThread] /\ acked = {}
    /\ outbox = <<>>
    /\ fstate = "ok" /\ file_lock = FALSE /\ sv = NoSave /\ ret = NoCall
    /\ jobs = <<[id |-> job_id("d1"), domain_id |-> "d1", interval |-> DefaultInterval]>>
    /\ active_jobs = {job_id("d1")}
    /\ scheduled = [d \in DomainPool |->
                        IF d = "d1" THEN [interval |-> DefaultInterval, replaced |-> 0]
                        ELSE NotScheduled]
    /\ inst = {}
    /\ now = 0 /\ digest = NoDigest
    /\ alertdir = {}

InitWith(sites, depths, limits, crawls, faults) ==
    InitProgram(sites, depths, limits, crawls, faults) /\ pure = NoInput

Init == InitWith(InitSites, 0..MaxDepth, 0..MaxPagesLimit, MaxRuns, 0)

\* one more crawl of a site whose page budget cuts the frontier, so that a Page
\* can be stored, missed and fetched again
InitReturn ==
    InitWith({s \in InitSites : s.links = Star}, {1}, {MaxPagesLimit - 1}, MaxRuns + 1, 0)

\* one crawl of every site and budget
InitOne == InitWith(NearSites, 0..MaxDepth, 0..MaxPagesLimit, 1, 0)

\* crawls in which steps of scrape_url fail
InitFaults ==
    InitWith({s \in InitSites : s.links = Chain}, {MaxDepth}, {MaxPagesLimit},
             MaxRuns, MaxFaults)

job_skips_missing_only(domain) == domain = NoDomain

\* if not domain or not domain.get('is_active'): return
job_skips(domain) == domain = NoDomain \/ ~domain.is_active

\* scrape_domain_job up to the call of crawl_domain, and the set-up of
\* crawl_domain; for a Domain that is missing or paused the job returns at once
StartJob(d) ==
    /\ pc \in {"idle", "done"}
    /\ IF job_skips(get_domain(domains, d))
       THEN /\ ret' = [op |-> "scrape_domain_job", id |-> d, started |-> FALSE]
            /\ UNCHANGED <<runs, uuid, cur, queue, visited, stats, calls, before, repeat,
                           pc, runsLeft>>
       ELSE /\ runsLeft > 0
            /\ ret' = [op |-> "scrape_domain_job", id |-> d, started |-> TRUE]
            /\ runs' = create_scrape_run(runs, uuid + 1, d)
            /\ uuid' = uuid + 1
            /\ cur' = [mode |-> "job", domain_id |-> d, run_id |-> uuid + 1,
                       base_url |-> get_domain(domains, d).url,
                       max_depth |-> get_domain(domains, d).crawl_depth,
                       max_pages |-> get_domain(domains, d).max_pages]
            /\ queue' = <<[url |-> get_domain(domains, d).url, depth |-> 0]>>
            /\ visited' = {}
            /\ stats' = ZeroStats
            /\ calls' = <<>>
            /\ before' = pages
            /\ repeat' = (pc = "done" /\ cur.mode = "job" /\ cur.domain_id = d /\ ~escaped
                            /\ get_run(runs, cur.run_id).status = "completed"
                            /\ \A i \in 1..Len(calls) : calls[i].fault = "none")
            /\ pc' = "crawl"
            /\ runsLeft' = runsLeft - 1
    /\ UNCHANGED <<site, domains, pages, changes, files, snapdir, escaped,
                   editsLeft, faultsLeft, thr, acked, outbox>>
    /\ UNCHANGED <<fstate, file_lock, sv, schedVars, digestVars, alertdir, pure>>

\* crawl_domain called directly, without a run id
StartStandalone(d) ==
    /\ pc \in {"idle", "done"}
    /\ runsLeft > 0
    /\ get_domain(domains, "d1") # NoDomain
    /\ cur' = [mode |-> "standalone", domain_id |-> d, run_id |-> NoId,
               base_url |-> Root, max_depth |-> get_domain(domains, "d1").crawl_depth,
               max_pages |-> get_domain(domains, "d1").max_pages]
    /\ queue' = <<[url |-> Root, depth |-> 0]>>
    /\ visited' = {}
    /\ stats' = ZeroStats
    /\ calls' = <<>>
    /\ before' = pages
    /\ repeat' = FALSE
    /\ pc' = "crawl"
    /\ runsLeft' = runsLeft - 1
    /\ UNCHANGED <<site, domains, pages, changes, runs, files, snapdir, uuid, escaped,
                   editsLeft, faultsLeft, thr, acked, outbox>>
    /\ UNCHANGED <<fileVars, schedVars, digestVars, alertdir, pure>>

\* one iteration of the while loop of crawl_domain
CrawlStep ==
    /\ pc = "crawl"
    /\ loop_condition(queue, visited, cur.max_pages)
    /\ LET url == Head(queue).url
           depth == Head(queue).depth
           rest == Tail(queue)
       IN
       IF url \in visited
       THEN /\ queue' = rest
            /\ UNCHANGED <<site, domains, pages, changes, runs, files, snapdir, uuid,
                           pc, cur, visited, stats, calls, before, repeat, escaped,
                           runsLeft, editsLeft, faultsLeft, thr, acked, outbox, alertdir>>
       ELSE \E fault \in FaultChoices :
            /\ visited' = visited \cup {url}
            /\ IF Dispatch(url) = "download_file"
               THEN LET stored == download_file(url, fault)
                    IN  /\ fault \in {"none", "fetch"}
                        /\ files' = IF stored THEN add_file(files, uuid + 1, cur.domain_id, url)
                                    ELSE files
                        /\ uuid' = IF stored THEN uuid + 1 ELSE uuid
                        /\ stats' = [stats EXCEPT !.urls = Append(@, url),
                                                  !.files_downloaded = @ + 1]
                        /\ queue' = rest
                        /\ calls' = Append(calls, [url |-> url, fn |-> "download_file",
                                                   status |-> IF stored THEN "success" ELSE "error",
                                                   error |-> ~stored, fault |-> fault,
                                                   log_raised |-> FALSE,
                                                   delayed |-> FALSE, fetched |-> TRUE,
                                                   expanded |-> FALSE, found |-> {},
                                                   depth |-> depth])
                        /\ faultsLeft' = IF fault = "none" THEN faultsLeft ELSE faultsLeft - 1
                        /\ UNCHANGED <<pages, changes, runs, snapdir, pc, escaped, alertdir>>
               ELSE \* result = core.scrape_url(url, domain_id=domain_id, run_id=run_id)
                    \E r \in {scrape_url(url, cur.domain_id, cur.run_id,
                                           IF fault = "error_log" THEN "none" ELSE fault)} :
                    LET ok == ~r.raised /\ r.status = "success"
                        \* open('error.log', 'a') raises: the exception leaves crawl_domain
                        log_raises == fault = "error_log"
                        expand == ok /\ below_max_depth(depth, cur.max_depth)
                        new_links == IF expand /\ r.snapdir # <<>>
                                     THEN discover_links(r.snapdir[Len(r.snapdir)], url)
                                     ELSE {}
                    IN  /\ IF log_raises THEN ~ok ELSE r.exc = fault
                        /\ pages' = r.pages
                        /\ changes' = r.changes
                        /\ snapdir' = r.snapdir
                        /\ alertdir' = r.alertdir
                        /\ uuid' = r.uuid
                        /\ faultsLeft' = IF fault = "none" THEN faultsLeft ELSE faultsLeft - 1
                        /\ calls' = Append(calls, [url |-> url, fn |-> "scrape_url",
                                                   status |-> IF r.raised THEN "raised" ELSE r.status,
                                                   error |-> r.error,
                                                   fault |-> IF log_raises THEN "none" ELSE fault,
                                                   log_raised |-> log_raises,
                                                   delayed |-> r.delayed,
                                                   fetched |-> r.fetched,
                                                   found |-> new_links,
                                                   expanded |-> expand, depth |-> depth])
                        /\ IF r.raised \/ log_raises
                           THEN \* the exception ends crawl_domain; the job records the failure
                                /\ escaped' = (escaped \/ r.raised)
                                /\ pc' = "done"
                                /\ queue' = rest
                                /\ stats' = [stats EXCEPT !.urls = Append(@, url)]
                                /\ runs' = IF cur.run_id # NoId
                                           THEN update_scrape_run(runs, cur.run_id,
                                                    [status |-> "failed",
                                                     error_message |-> fault])
                                           ELSE runs
                           ELSE /\ escaped' = escaped
                                /\ pc' = pc
                                /\ stats' = [stats EXCEPT
                                    !.urls = Append(@, url),
                                    !.pages_crawled = @ + 1,
                                    !.pages_new = IF ok /\ r.is_new THEN @ + 1 ELSE @,
                                    !.pages_modified =
                                        IF ok /\ ~r.is_new /\ r.changed THEN @ + 1 ELSE @,
                                    !.pages_unchanged =
                                        IF ok /\ ~r.is_new /\ ~r.changed THEN @ + 1 ELSE @,
                                    !.pages_error = IF ok THEN @ ELSE @ + 1]
                                /\ \E order \in Orderings(new_links) :
                                      queue' = EnqueueAll(order, rest, visited', depth)
                                /\ runs' = IF cur.run_id # NoId
                                           THEN update_scrape_run(runs, cur.run_id,
                                                    [pages_crawled |-> stats.pages_crawled + 1,
                                                     current_url |-> url])
                                           ELSE runs
                        /\ UNCHANGED files
            /\ UNCHANGED <<site, domains, cur, before, repeat, runsLeft, editsLeft, thr, acked,
                           outbox>>
    /\ UNCHANGED <<fileVars, schedVars, digestVars, pure>>

RECURSIVE AddRemovedChanges(_, _, _, _)
AddRemovedChanges(C, removed, run_id, last_id) ==
    IF removed = <<>> THEN C
    ELSE AddRemovedChanges(add_change(C, last_id + 1, Head(removed).id, run_id, "removed", now,
                                      NoPath, NoPath, NoPath, NoPath),
                           Tail(removed), run_id, last_id + 1)

\* config.EMAIL_ENABLED
EMAIL_ENABLED == TRUE

\* send_email_alert: TRUE when the message was handed to the SMTP server
send_email_alert(fault) == EMAIL_ENABLED /\ fault # "smtp"

\* the places of the steps after the crawl where a failure can be injected: the
\* call of the Notifier raises, or the SMTP dialogue fails inside it
PostFaults == IF faultsLeft > 0 THEN {"none", "notify", "smtp"} ELSE {"none"}

\* the loop of crawl_domain has ended: crawl_domain returns its statistics and
\* scrape_domain_job runs its steps after the crawl
FinishCrawl ==
    /\ IF pc = "except"
       THEN \* a step after update_scrape_run raised: the except clause of the
            \* job records the failure on the run that was already finalized
            /\ runs' = update_scrape_run(runs, cur.run_id,
                            [status |-> "failed", error_message |-> "notify"])
            /\ pc' = "done"
            /\ UNCHANGED <<pages, uuid, domains, changes, outbox, faultsLeft>>
       ELSE
       /\ pc = "crawl"
       /\ ~loop_condition(queue, visited, cur.max_pages)
       /\ \E fault \in PostFaults :
        /\ faultsLeft' = IF fault = "none" THEN faultsLeft ELSE faultsLeft - 1
        /\ pc' = IF cur.mode = "job" /\ fault = "notify" THEN "except" ELSE "done"
        /\ IF cur.mode = "job"
           THEN LET det == detect_removed_pages(pages, cur.domain_id, stats.urls)
                    removed == det.removed
                    recorded == AddRemovedChanges(changes, removed, cur.run_id, uuid)
                    total_changes == stats.pages_new + stats.pages_modified + Len(removed)
                    run_changes == get_run_changes(recorded, cur.run_id)
                    change_ids == {run_changes[i].id : i \in 1..Len(run_changes)}
                    alerting == total_changes > 0 /\ run_changes # <<>>
                    completed == update_scrape_run(runs, cur.run_id,
                                  [status |-> "completed",
                                   pages_crawled |-> stats.pages_crawled,
                                   pages_changed |-> stats.pages_modified,
                                   pages_new |-> stats.pages_new,
                                   pages_removed |-> Len(removed),
                                   files_downloaded |-> stats.files_downloaded])
                IN  /\ fault = "smtp" => alerting
                    /\ pages' = det.pages
                    /\ uuid' = uuid + Len(removed)
                    /\ domains' = update_domain(domains, cur.domain_id,
                                                [last_scraped_at |-> cur.run_id])
                    /\ runs' = completed
                    /\ IF fault = "notify"
                       THEN \* the call of the Notifier raises
                            /\ changes' = recorded
                            /\ outbox' = outbox
                       ELSE /\ changes' = IF alerting
                                          THEN mark_changes_notified(recorded, change_ids)
                                          ELSE recorded
                            /\ outbox' = IF alerting
                                         THEN Append(outbox,
                                                [kind |-> "alert", run_id |-> cur.run_id,
                                                 change_ids |-> change_ids,
                                                 sent |-> send_email_alert(fault)])
                                         ELSE IF total_changes = 0
                                         THEN Append(outbox,
                                                [kind |-> "completion", run_id |-> cur.run_id,
                                                 change_ids |-> {}, sent |-> TRUE])
                                         ELSE outbox
           ELSE /\ fault = "none"
                /\ UNCHANGED <<pages, uuid, runs, domains, changes, outbox>>
    /\ UNCHANGED <<site, files, snapdir, cur, queue, visited, stats, calls, before, repeat,
                   escaped, runsLeft, editsLeft, thr, acked>>
    /\ UNCHANGED <<fileVars, schedVars, digestVars, alertdir, pure>>

----------------------------------------------------------------------------
(* The site changes between crawls *)


EditText(u) ==
    /\ pc \in {"idle", "done"} /\ editsLeft > 0 /\ runsLeft > 0
    /\ site' = ToggleText(site, u)
    /\ pc' = "idle"
    /\ editsLeft' = editsLeft - 1
    /\ UNCHANGED <<domains, pages, changes, runs, files, snapdir, uuid, cur, queue, visited,
                   stats, calls, before, repeat, escaped, runsLeft, faultsLeft, thr, acked,
                   outbox, fileVars, schedVars, digestVars, alertdir, pure>>

EditStatus(u) ==
    /\ pc \in {"idle", "done"} /\ editsLeft > 0 /\ runsLeft > 0
    /\ site' = ToggleStatus(site, u)
    /\ pc' = "idle"
    /\ editsLeft' = editsLeft - 1
    /\ UNCHANGED <<domains, pages, changes, runs, files, snapdir, uuid, cur, queue, visited,
                   stats, calls, before, repeat, escaped, runsLeft, faultsLeft, thr, acked,
                   outbox, fileVars, schedVars, digestVars, alertdir, pure>>

EditLink(u, v) ==
    /\ pc \in {"idle", "done"} /\ editsLeft > 0 /\ runsLeft > 0
    /\ site' = ToggleLink(site, u, v)
    /\ pc' = "idle"
    /\ editsLeft' = editsLeft - 1
    /\ UNCHANGED <<domains, pages, changes, runs, files, snapdir, uuid, cur, queue, visited,
                   stats, calls, before, repeat, escaped, runsLeft, faultsLeft, thr, acked,
                   outbox, fileVars, schedVars, digestVars, alertdir, pure>>

\* robots.txt is read once per process and cached: it changes only before the first crawl
EditRobots(u) ==
    /\ pc = "idle" /\ uuid = 0 /\ runsLeft = MaxRuns /\ editsLeft > 0
    /\ site' = ToggleRobots(site, u)
    /\ pc' = "idle"
    /\ editsLeft' = editsLeft - 1
    /\ UNCHANGED <<domains, pages, changes, runs, files, snapdir, uuid, cur, queue, visited,
                   stats, calls, before, repeat, escaped, runsLeft, faultsLeft, thr, acked,
                   outbox, fileVars, schedVars, digestVars, alertdir, pure>>

\* the GET of robots.txt that fills the cache fails
EditRobotsFetch(outcome) ==
    /\ pc = "idle" /\ uuid = 0 /\ runsLeft = MaxRuns /\ editsLeft > 0
    /\ outcome # site.robots
    /\ site' = SetRobots(site, outcome)
    /\ pc' = "idle"
    /\ editsLeft' = editsLeft - 1
    /\ UNCHANGED <<domains, pages, changes, runs, files, snapdir, uuid, cur, queue, visited,
                   stats, calls, before, repeat, escaped, runsLeft, faultsLeft, thr, acked,
                   outbox, fileVars, schedVars, digestVars, alertdir, pure>>

NextCrawl ==
    \/ \E d \in DomainIds : StartJob(d)
    \/ \E d \in StandaloneIds : StartStandalone(d)
    \/ CrawlStep
    \/ FinishCrawl

ReturnSpec == InitReturn /\ [][NextCrawl]_vars

\* scrape_url of another crawl of the same host that runs at the same time (a
\* crawl_domain call without a domain id): it stores its snapshot under the
\* timestamp of its own fetch, which falls in the second of the newest file of
\* the directory or in a later one
OtherFetch(url, same_second) ==
    /\ pc = "crawl"
    /\ snapdir # <<>>
    /\ allowed_by_robots(url) /\ site.status[url] = HttpOk
    /\ LET newest == snapdir[Len(snapdir)].name
           timestamp == IF same_second THEN newest ELSE newest + 1
       IN  /\ timestamp <= MaxSeconds
           /\ snapdir' = WriteSnapshot(snapdir, [name |-> timestamp, url |-> url,
                                                 text |-> site.text[url],
                                                 hrefs |-> site.links[url]])
    /\ UNCHANGED <<site, domains, pages, changes, runs, files, uuid, pc, cur, queue, visited,
                   stats, calls, before, repeat, escaped, runsLeft, editsLeft, faultsLeft,
                   thr, acked, outbox, fileVars, schedVars, digestVars, alertdir, pure>>

NextSecond ==
    \/ NextCrawl
    \/ \E u \in PageUrls, same_second \in BOOLEAN : OtherFetch(u, same_second)

InitSecond ==
    InitWith({s \in InitSites : s.links = Chain}, {MaxDepth}, {MaxPagesLimit}, MaxRuns, 0)

SecondSpec == InitSecond /\ [][NextSecond]_vars

Next ==
    \/ NextCrawl
    \/ \E u \in PageUrls : EditText(u)
    \/ \E u \in SiteUrls : EditStatus(u)
    \/ \E e \in EditableLinks : EditLink(e[1], e[2])
    \/ \E u \in PageUrls : EditRobots(u)
    \/ \E o \in RobotsOutcomes : EditRobotsFetch(o)

Spec == Init /\ [][Next]_vars

FaultSpec == InitFaults /\ [][Next]_vars

\* a crawl that has started keeps running: the job thread is never suspended for ever
LiveSpec == InitOne /\ [][NextCrawl]_vars /\ WF_vars(CrawlStep) /\ WF_vars(FinishCrawl)

----------------------------------------------------------------------------
(* Concurrent writers of the store.  load_json and save_json each hold     *)
(* file_lock for the length of their own call; a mutating operation calls  *)
(* load_json, changes its copy, and calls save_json.                        *)

\* add_change is called with the id of the Page that add_page returned
StoreOps ==
    {[op |-> "add_change", arg |-> <<t, p>>] : t \in {"new", "removed"}, p \in 1..MaxOps}
    \cup {[op |-> "add_page", arg |-> x] : x \in {1, 2}}
    \cup {[op |-> o, arg |-> 0] :
            o \in {"mark_page_removed", "fix_missing_titles", "fix_notification_statuses",
                   "create_scrape_run", "update_scrape_run"}}

OpsStarted == thr[1].ops + thr[2].ops

\* the runs whose job has created them and has not started to finalize them
OpenRuns ==
    {a.id : a \in {x \in acked : x.op = "create_scrape_run"}}
    \ ({a.id : a \in {x \in acked : x.op = "update_scrape_run"}}
        \cup {thr[t].arg : t \in {u \in Threads : thr[u].op = "update_scrape_run"
                                                    /\ thr[u].pc = "loaded"}})

\* load_json of the operation's record set
Load(t, o) ==
    /\ thr[t].pc = "idle"
    /\ OpsStarted < MaxOps
    /\ o.op = "mark_page_removed" => pages # <<>>
    /\ o.op = "add_change" => [op |-> "add_page", id |-> o.arg[2]] \in acked
    /\ o.op = "update_scrape_run" => OpenRuns # {}
    /\ thr' = [thr EXCEPT ![t] =
                  [pc |-> "loaded", op |-> o.op,
                   arg |-> CASE o.op = "mark_page_removed" -> pages[1].id
                             [] o.op = "update_scrape_run" -> Min(OpenRuns)
                             [] OTHER -> o.arg,
                   data |-> CASE o.op \in {"add_change", "fix_notification_statuses"} -> changes
                              [] o.op \in {"create_scrape_run", "update_scrape_run"} -> runs
                              [] OTHER -> pages,
                   ops |-> @.ops + 1]]
    /\ UNCHANGED <<site, domains, pages, changes, runs, files, snapdir, uuid, pc, cur,
                   queue, visited, stats, calls, before, repeat, escaped,
                   runsLeft, editsLeft, faultsLeft, acked, outbox>>
    /\ UNCHANGED <<fileVars, schedVars, digestVars, alertdir, pure>>

\* the change of the loaded copy and save_json
Save(t) ==
    /\ thr[t].pc = "loaded"
    /\ LET me == thr[t]
       IN  CASE me.op = "add_change" ->
                  /\ changes' = add_change(me.data, uuid + 1, me.arg[2], 1, me.arg[1], now,
                                              NoPath, NoPath, NoPath, NoPath)
                  /\ uuid' = uuid + 1
                  /\ acked' = acked \cup {[op |-> me.op, id |-> uuid + 1]}
                  /\ UNCHANGED <<pages, runs>>
             [] me.op = "fix_notification_statuses" ->
                  /\ changes' = fix_notification_statuses(me.data)
                  /\ UNCHANGED <<pages, runs, uuid, acked>>
             [] me.op = "add_page" ->
                  /\ pages' = add_page(me.data, uuid + 1, "d1", Root, "No Title",
                                       compute_hash(me.arg), HttpOk, NoLinks, now)
                  /\ uuid' = uuid + 1
                  /\ acked' = acked \cup
                        {[op |-> me.op,
                          id |-> LET q == get_page_by_url(me.data, "d1", Root)
                                 IN  IF q = NoPage THEN uuid + 1 ELSE q.id]}
                  /\ UNCHANGED <<changes, runs>>
             [] me.op = "fix_missing_titles" ->
                  /\ pages' = fix_missing_titles(me.data)
                  /\ UNCHANGED <<changes, runs, uuid, acked>>
             [] me.op = "create_scrape_run" ->
                  /\ runs' = create_scrape_run(me.data, uuid + 1, "d1")
                  /\ uuid' = uuid + 1
                  /\ acked' = acked \cup {[op |-> me.op, id |-> uuid + 1]}
                  /\ UNCHANGED <<pages, changes>>
             [] me.op = "update_scrape_run" ->
                  /\ runs' = update_scrape_run(me.data, me.arg, [status |-> "completed"])
                  /\ acked' = acked \cup {[op |-> me.op, id |-> me.arg]}
                  /\ UNCHANGED <<pages, changes, uuid>>
             [] OTHER ->
                  /\ pages' = mark_page_removed(me.data, me.arg)
                  /\ acked' = acked \cup {[op |-> me.op, id |-> me.arg]}
                  /\ UNCHANGED <<changes, runs, uuid>>
    /\ thr' = [thr EXCEPT ![t] = [@ EXCEPT !.pc = "idle", !.data = <<>>]]
    /\ UNCHANGED <<site, domains, files, snapdir, pc, cur,
                   queue, visited, stats, calls, before, repeat, escaped,
                   runsLeft, editsLeft, faultsLeft, outbox>>
    /\ UNCHANGED <<fileVars, schedVars, digestVars, alertdir, pure>>

NextStore ==
    \/ \E t \in Threads, o \in StoreOps : Load(t, o)
    \/ \E t \in Threads : Save(t)

InitStore == InitWith({s \in InitSites : s.links = Chain}, {MaxDepth}, {MaxPagesLimit}, 0, 0)

StoreSpec == InitStore /\ [][NextStore]_vars

----------------------------------------------------------------------------
(* The backing file of a record set (scraper/storage.py, load_json and      *)
(* save_json), here the file of the Domains.                                *)

LoadCaught_os_only(exc) == exc = "OSError"

\* the exceptions the handler of load_json catches: except Exception
LoadCaught(exc) == TRUE

\* load_json: a missing file gives {} before the file is opened; json.load of a
\* corrupt file raises JSONDecodeError inside the try block
load_json(state, data) ==
    CASE state = "missing" -> [raised |-> FALSE, data |-> <<>>]
      [] state = "corrupt" -> [raised |-> ~LoadCaught("JSONDecodeError"), data |-> <<>>]
      [] OTHER -> [raised |-> FALSE, data |-> data]

max_retries == 3

attempt_returns_never(outcome) == FALSE

\* return  # Success: the attempt that renamed the temporary file ends save_json
attempt_returns(outcome) == outcome = "ok"

\* how one attempt of save_json ends: the file is replaced; the write of the
\* temporary file raises; or the old file is removed and the rename raises
SaveOutcomes == {"ok", "write_fails", "rename_fails"}

\* the backing file is removed or damaged behind the program's back
Damage(kind) ==
    /\ ~file_lock
    /\ fstate # kind
    /\ fstate' = kind
    /\ domains' = <<>>
    /\ UNCHANGED <<site, pages, changes, runs, files, snapdir, uuid, pc, cur,
                   queue, visited, stats, calls, before, repeat, escaped,
                   runsLeft, editsLeft, faultsLeft, thr, acked, outbox,
                   file_lock, sv, ret, schedVars, digestVars, alertdir, pure>>

\* get_domain and get_all_domains: load_json, then data.get('domains', [])
Query(q) ==
    /\ ~file_lock
    /\ LET loaded == load_json(fstate, domains)
       IN  ret' = [op |-> q, state |-> fstate, raised |-> loaded.raised,
                   result |-> IF loaded.raised THEN <<>>
                              ELSE IF q = "get_domain"
                              THEN <<get_domain(loaded.data, "d1")>>
                              ELSE loaded.data]
    /\ UNCHANGED <<site, domains, pages, changes, runs, files, snapdir, uuid, pc, cur,
                   queue, visited, stats, calls, before, repeat, escaped,
                   runsLeft, editsLeft, faultsLeft, thr, acked, outbox,
                   fstate, file_lock, sv, schedVars, digestVars, alertdir, pure>>

\* add_domain up to the first attempt of its save_json: load_json, the append,
\* and the entry of save_json, which takes file_lock
BeginSave(url) ==
    /\ ~file_lock
    /\ uuid < MaxOps
    /\ LET loaded == load_json(fstate, domains)
           added == add_domain(loaded.data, IdStrings[uuid + 1], url, DefaultInterval, None)
       IN  /\ ~loaded.raised
           /\ sv' = [pc |-> "try", i |-> 0, attempts |-> 0, ok_at |-> 0,
                      data |-> added.domains]
    /\ uuid' = uuid + 1
    /\ file_lock' = TRUE
    /\ UNCHANGED <<site, domains, pages, changes, runs, files, snapdir, pc, cur,
                   queue, visited, stats, calls, before, repeat, escaped,
                   runsLeft, editsLeft, faultsLeft, thr, acked, outbox,
                   fstate, ret, schedVars, digestVars, alertdir, pure>>

\* one pass of the retry loop of save_json
SaveAttempt(outcome) ==
    /\ sv.pc = "try"
    /\ LET last == sv.i = max_retries - 1
           leaves == attempt_returns(outcome) \/ last
       IN  /\ sv' = [sv EXCEPT !.attempts = @ + 1,
                                !.ok_at = IF outcome = "ok" /\ @ = 0 THEN sv.attempts + 1 ELSE @,
                                !.i = IF leaves THEN @ ELSE @ + 1,
                                !.pc = IF leaves THEN "returned" ELSE "try"]
           /\ file_lock' = ~leaves
    /\ CASE outcome = "ok" -> fstate' = "ok" /\ domains' = sv.data
         [] outcome = "rename_fails" -> fstate' = "missing" /\ domains' = <<>>
         [] OTHER -> UNCHANGED <<fstate, domains>>
    /\ UNCHANGED <<site, pages, changes, runs, files, snapdir, uuid, pc, cur,
                   queue, visited, stats, calls, before, repeat, escaped,
                   runsLeft, editsLeft, faultsLeft, thr, acked, outbox,
                   ret, schedVars, digestVars, alertdir, pure>>

NextFile ==
    \/ \E kind \in {"missing", "corrupt"} : Damage(kind)
    \/ \E q \in {"get_domain", "get_all_domains"} : Query(q)
    \/ \E url \in {Root, External} : BeginSave(url)
    \/ \E outcome \in SaveOutcomes : SaveAttempt(outcome)

FileSpec == InitStore /\ [][NextFile]_vars

----------------------------------------------------------------------------
(* The dashboard requests and the scheduler (web/routes.py,                 *)
(* scraper/scheduler.py).  A request runs in its own thread; the            *)
(* BackgroundScheduler runs each job in a worker of its pool.  An execution *)
(* of scrape_domain_job is followed here from the creation of its ScrapeRun *)
(* to its end; its crawl is the crawl of CrawlStep.                         *)

Intervals == {DefaultInterval \div 2, DefaultInterval}
Emails == {None, "", "ops@a.com"}

\* scheduler.remove_job: the job with the id leaves the job store
remove_job(J, jid) == SelectSeq(J, LAMBDA j : j.id # jid)

\* scheduler.add_job(..., id=job_id, replace_existing=True)
add_job(J, jid, domain_id, interval) ==
    LET job == [id |-> jid, domain_id |-> domain_id, interval |-> interval]
    IN  IF \E i \in 1..Len(J) : J[i].id = jid
        THEN [i \in 1..Len(J) |-> IF J[i].id = jid THEN job ELSE J[i]]
        ELSE Append(J, job)

schedule_domain_append(J, A, domain_id, interval) ==
    [jobs |-> Append(J, [id |-> job_id(domain_id), domain_id |-> domain_id,
                         interval |-> interval]),
     active_jobs |-> A \cup {job_id(domain_id)}]

schedule_domain(J, A, domain_id, interval) ==
    LET jid == job_id(domain_id)
        kept == IF jid \in A THEN remove_job(J, jid) ELSE J
    IN  [jobs |-> add_job(kept, jid, domain_id, interval),
         active_jobs |-> A \cup {jid}]

unschedule_domain(J, A, domain_id) ==
    LET jid == job_id(domain_id)
    IN  IF jid \in A
        THEN [jobs |-> remove_job(J, jid), active_jobs |-> A \ {jid}]
        ELSE [jobs |-> J, active_jobs |-> A]

\* scrape_domain_job up to the call of crawl_domain, run by the thread src
BeginJob(D, R, I, new_id, src, domain_id) ==
    LET domain == get_domain(D, domain_id)
    IN  IF job_skips(domain)
        THEN [runs |-> R, inst |-> I, started |-> FALSE]
        ELSE [runs |-> create_scrape_run(R, new_id, domain_id),
              inst |-> I \cup {[src |-> src, domain_id |-> domain_id, run_id |-> new_id]},
              started |-> TRUE]

\* routes.add_domain: the Domain is stored, scheduled, and scraped at once in
\* the thread of the request
AddDomainRoute(url, interval, email, crawl_depth, max_pages) ==
    /\ uuid + 2 <= MaxIds
    /\ LET new_id == IdStrings[uuid + 1]
           added == add_domain(domains, new_id, url, interval, email)
           stored == update_domain(added.domains, new_id,
                                   [crawl_depth |-> crawl_depth, max_pages |-> max_pages])
           s == schedule_domain(jobs, active_jobs, new_id, interval)
           b == BeginJob(stored, runs, inst, uuid + 2, "request", new_id)
       IN  /\ domains' = stored
           /\ ret' = [op |-> "add_domain", id |-> added.domain.id, url |-> url,
                       interval |-> interval, email |-> email,
                       got |-> get_domain(added.domains, added.domain.id)]
           /\ jobs' = s.jobs
           /\ active_jobs' = s.active_jobs
           /\ scheduled' = [scheduled EXCEPT ![new_id] =
                                [interval |-> interval, replaced |-> 0]]
           /\ runs' = b.runs
           /\ inst' = b.inst
    /\ uuid' = uuid + 2
    /\ UNCHANGED <<site, pages, changes, files, snapdir, pc, cur,
                   queue, visited, stats, calls, before, repeat, escaped,
                   runsLeft, editsLeft, faultsLeft, thr, acked, outbox,
                   fstate, file_lock, sv, digestVars, alertdir, pure>>

\* routes.delete_domain: unschedule_domain, then storage.delete_domain
DeleteDomainRoute(d) ==
    /\ get_domain(domains, d) # NoDomain
    /\ LET u == unschedule_domain(jobs, active_jobs, d)
       IN  /\ jobs' = u.jobs
           /\ active_jobs' = u.active_jobs
    /\ scheduled' = [scheduled EXCEPT ![d] = NotScheduled]
    /\ domains' = delete_domain(domains, d)
    /\ ret' = [op |-> "delete_domain", id |-> d, was |-> get_domain(domains, d),
                got |-> get_domain(delete_domain(domains, d), d)]
    /\ UNCHANGED <<site, pages, changes, runs, files, snapdir, uuid, pc, cur,
                   queue, visited, stats, calls, before, repeat, escaped,
                   runsLeft, editsLeft, faultsLeft, thr, acked, outbox,
                   fstate, file_lock, sv, inst, digestVars, alertdir, pure>>

\* a call of schedule_domain
ScheduleDomain(d, interval) ==
    /\ get_domain(domains, d) # NoDomain
    /\ LET s == schedule_domain(jobs, active_jobs, d, interval)
       IN  /\ jobs' = s.jobs
           /\ active_jobs' = s.active_jobs
    /\ scheduled' = [scheduled EXCEPT ![d] =
                         [interval |-> interval,
                          replaced |-> IF job_id(d) \in active_jobs
                                       THEN scheduled[d].interval ELSE 0]]
    /\ UNCHANGED <<site, domains, pages, changes, runs, files, snapdir, uuid, pc, cur,
                   queue, visited, stats, calls, before, repeat, escaped,
                   runsLeft, editsLeft, faultsLeft, thr, acked, outbox,
                   fileVars, inst, digestVars, alertdir, pure>>

\* a call of unschedule_domain
UnscheduleDomain(d) ==
    /\ get_domain(domains, d) # NoDomain
    /\ LET u == unschedule_domain(jobs, active_jobs, d)
       IN  /\ jobs' = u.jobs
           /\ active_jobs' = u.active_jobs
    /\ scheduled' = [scheduled EXCEPT ![d] = NotScheduled]
    /\ UNCHANGED <<site, domains, pages, changes, runs, files, snapdir, uuid, pc, cur,
                   queue, visited, stats, calls, before, repeat, escaped,
                   runsLeft, editsLeft, faultsLeft, thr, acked, outbox,
                   fileVars, inst, digestVars, alertdir, pure>>

\* routes.scrape_now: trigger_immediate_scrape calls scrape_domain_job in the
\* thread of the request
ScrapeNow(d) ==
    /\ uuid < MaxIds
    /\ LET b == BeginJob(domains, runs, inst, uuid + 1, "request", d)
       IN  /\ b.started
           /\ runs' = b.runs
           /\ inst' = b.inst
    /\ uuid' = uuid + 1
    /\ UNCHANGED <<site, domains, pages, changes, files, snapdir, pc, cur,
                   queue, visited, stats, calls, before, repeat, escaped,
                   runsLeft, editsLeft, faultsLeft, thr, acked, outbox,
                   fileVars, jobs, active_jobs, scheduled, digestVars, alertdir, pure>>

\* the interval trigger of a job fires; the scheduler skips the run while an
\* earlier run of the same job is executing (max_instances is 1)
JobFire(j) ==
    /\ uuid < MaxIds
    /\ j \in 1..Len(jobs)
    /\ ~\E i \in inst : i.src = "scheduler" /\ i.domain_id = jobs[j].domain_id
    /\ LET b == BeginJob(domains, runs, inst, uuid + 1, "scheduler", jobs[j].domain_id)
       IN  /\ b.started
           /\ runs' = b.runs
           /\ inst' = b.inst
    /\ uuid' = uuid + 1
    /\ UNCHANGED <<site, domains, pages, changes, files, snapdir, pc, cur,
                   queue, visited, stats, calls, before, repeat, escaped,
                   runsLeft, editsLeft, faultsLeft, thr, acked, outbox,
                   fileVars, jobs, active_jobs, scheduled, digestVars, alertdir, pure>>

\* an execution of scrape_domain_job ends: the run is finalized
JobReturn(i) ==
    /\ i \in inst
    /\ runs' = update_scrape_run(runs, i.run_id, [status |-> "completed"])
    /\ domains' = update_domain(domains, i.domain_id, [last_scraped_at |-> i.run_id])
    /\ inst' = inst \ {i}
    /\ UNCHANGED <<site, pages, changes, files, snapdir, uuid, pc, cur,
                   queue, visited, stats, calls, before, repeat, escaped,
                   runsLeft, editsLeft, faultsLeft, thr, acked, outbox,
                   fileVars, jobs, active_jobs, scheduled, digestVars, alertdir, pure>>

\* routes.toggle_domain: the Domain is paused and unscheduled, or activated
\* and scheduled with its interval
ToggleDomainRoute(d) ==
    /\ get_domain(domains, d) # NoDomain
    /\ LET domain == get_domain(domains, d)
           new_status == ~domain.is_active
           s == IF new_status
                THEN schedule_domain(jobs, active_jobs, d, domain.interval_minutes)
                ELSE unschedule_domain(jobs, active_jobs, d)
       IN  /\ domains' = update_domain(domains, d, [is_active |-> new_status])
           /\ jobs' = s.jobs
           /\ active_jobs' = s.active_jobs
           /\ scheduled' = [scheduled EXCEPT ![d] =
                                IF new_status
                                THEN [interval |-> domain.interval_minutes,
                                      replaced |-> IF job_id(d) \in active_jobs
                                                   THEN scheduled[d].interval ELSE 0]
                                ELSE NotScheduled]
    /\ UNCHANGED <<site, pages, changes, runs, files, snapdir, uuid, pc, cur,
                   queue, visited, stats, calls, before, repeat, escaped,
                   runsLeft, editsLeft, faultsLeft, thr, acked, outbox,
                   fileVars, inst, digestVars, alertdir, pure>>

edit_reschedules_always(domain) == TRUE

\* if domain.get('is_active', True): the Domain as it was read before the update
edit_reschedules(domain) == domain.is_active

\* routes.edit_domain (POST): the settings are stored, and the job of an active
\* Domain is removed and registered again with the new interval
EditDomainRoute(d, interval, email, crawl_depth, max_pages) ==
    /\ get_domain(domains, d) # NoDomain
    /\ LET domain == get_domain(domains, d)
           u == unschedule_domain(jobs, active_jobs, d)
           s == schedule_domain(u.jobs, u.active_jobs, d, interval)
       IN  /\ domains' = update_domain(domains, d,
                             [interval_minutes |-> interval, email |-> email,
                              crawl_depth |-> crawl_depth, max_pages |-> max_pages])
           /\ IF edit_reschedules(domain)
              THEN /\ jobs' = s.jobs
                   /\ active_jobs' = s.active_jobs
                   /\ scheduled' = [scheduled EXCEPT ![d] =
                                        [interval |-> interval, replaced |-> 0]]
              ELSE UNCHANGED <<jobs, active_jobs, scheduled>>
    /\ UNCHANGED <<site, pages, changes, runs, files, snapdir, uuid, pc, cur,
                   queue, visited, stats, calls, before, repeat, escaped,
                   runsLeft, editsLeft, faultsLeft, thr, acked, outbox,
                   fileVars, inst, digestVars, alertdir, pure>>

\* the process starts again (app.py): the job store and active_jobs are empty,
\* and schedule_domain is called for every stored Domain that is active; the
\* executions of the process that ended are gone
Startup ==
    /\ LET RECURSIVE reschedule(_, _, _)
           reschedule(D, J, A) ==
               IF D = <<>> THEN [jobs |-> J, active_jobs |-> A]
               ELSE LET s == IF Head(D).is_active
                             THEN schedule_domain(J, A, Head(D).id, Head(D).interval_minutes)
                             ELSE [jobs |-> J, active_jobs |-> A]
                    IN  reschedule(Tail(D), s.jobs, s.active_jobs)
           started == reschedule(domains, <<>>, {})
       IN  /\ jobs' = started.jobs
           /\ active_jobs' = started.active_jobs
    /\ scheduled' = [d \in DomainPool |->
                        LET domain == get_domain(domains, d)
                        IN  IF domain # NoDomain /\ domain.is_active
                            THEN [interval |-> domain.interval_minutes, replaced |-> 0]
                            ELSE NotScheduled]
    /\ inst' = {}
    /\ UNCHANGED <<site, domains, pages, changes, runs, files, snapdir, uuid, pc, cur,
                   queue, visited, stats, calls, before, repeat, escaped,
                   runsLeft, editsLeft, faultsLeft, thr, acked, outbox,
                   fileVars, digestVars, alertdir, pure>>

\* jobs of a Domain that the dashboard pauses, activates and deletes
NextJob ==
    \/ \E d \in DomainIds \cup StandaloneIds : StartJob(d)
    \/ CrawlStep
    \/ FinishCrawl
    \/ \E d \in DomainIds : ToggleDomainRoute(d)
    \/ \E d \in DomainIds : DeleteDomainRoute(d)

InitJob ==
    InitWith({s \in InitSites : s.links = Chain}, 0..MaxDepth, 0..MaxPagesLimit, MaxRuns, 0)

JobSpec == InitJob /\ [][NextJob]_vars

NextDash ==
    \/ \E i \in Intervals, e \in Emails :
          AddDomainRoute(PageB, i, e, MaxDepth, MaxPagesLimit)
    \/ \E d \in DomainPool : DeleteDomainRoute(d)
    \/ \E d \in DomainPool, i \in Intervals : ScheduleDomain(d, i)
    \/ \E d \in DomainPool : UnscheduleDomain(d)
    \/ \E d \in DomainPool : ScrapeNow(d)
    \/ \E j \in 1..MaxIds : JobFire(j)
    \/ \E i \in inst : JobReturn(i)

DashSpec == InitStore /\ [][NextDash]_vars

\* the operations of the dashboard, the jobs they start, and restarts
NextRoute ==
    \/ \E i \in Intervals : AddDomainRoute(PageB, i, "", MaxDepth, MaxPagesLimit)
    \/ \E d \in DomainPool, i \in Intervals :
          EditDomainRoute(d, i, "", MaxDepth, MaxPagesLimit)
    \/ \E d \in DomainPool : ToggleDomainRoute(d)
    \/ \E d \in DomainPool : DeleteDomainRoute(d)
    \/ \E d \in DomainPool : ScrapeNow(d)
    \/ \E j \in 1..MaxIds : JobFire(j)
    \/ \E i \in inst : JobReturn(i)
    \/ Startup

RouteSpec == InitStore /\ [][NextRoute]_vars

----------------------------------------------------------------------------
(* The daily digest (scraper/digest.py) *)

\* the window of the digest, in hours
DigestHours == 24

\* the step of the clock, in hours
TickHours == DigestHours \div 2

\* get_recent_changes(hours): the Changes with detected_at >= now - hours
get_recent_changes(C, hours, t) == SelectSeq(C, LAMBDA c : c.detected_at >= t - hours)

\* generate_daily_digest: total_changes counts the recent Changes; a group is
\* built for each Domain that has recent Changes on its Pages
generate_daily_digest(D, P, C, t) ==
    LET recent == get_recent_changes(C, DigestHours, t)
        page_ids(d) == {p.id : p \in Range(get_domain_pages(P, d.id))}
        group(d) == [domain_id |-> d.id, url |-> d.url, email |-> d.email,
                     changes |-> SelectSeq(recent, LAMBDA c : c.page_id \in page_ids(d))]
        groups == [i \in 1..Len(D) |-> group(D[i])]
    IN  [total_changes |-> Len(recent),
         domains |-> SelectSeq(groups, LAMBDA g : g.changes # <<>>)]

Tick ==
    /\ now < MaxTicks * TickHours
    /\ now' = now + TickHours
    /\ UNCHANGED <<site, domains, pages, changes, runs, files, snapdir, uuid, pc, cur,
                   queue, visited, stats, calls, before, repeat, escaped,
                   runsLeft, editsLeft, faultsLeft, thr, acked, outbox,
                   fileVars, schedVars, digest, alertdir, pure>>

\* send_daily_digest: nothing is sent when total_changes is 0
SendDailyDigest ==
    /\ LET d == generate_daily_digest(domains, pages, changes, now)
       IN  /\ digest' = [at |-> now, seen |-> Len(changes)] @@ d
           /\ outbox' = IF d.total_changes = 0 THEN outbox
                         ELSE Append(outbox,
                                [kind |-> "digest", run_id |-> NoId,
                                 change_ids |->
                                    UNION {{c.id : c \in Range(d.domains[i].changes)} :
                                            i \in 1..Len(d.domains)},
                                 sent |-> TRUE])
    /\ digest' # digest
    /\ UNCHANGED <<site, domains, pages, changes, runs, files, snapdir, uuid, pc, cur,
                   queue, visited, stats, calls, before, repeat, escaped,
                   runsLeft, editsLeft, faultsLeft, thr, acked,
                   fileVars, schedVars, now, alertdir, pure>>

NextDigest ==
    \/ \E d \in DomainIds : StartJob(d)
    \/ CrawlStep
    \/ FinishCrawl
    \/ \E d \in DomainIds : DeleteDomainRoute(d)
    \/ Tick
    \/ SendDailyDigest

InitDigest == InitWith({s \in InitSites : s.links = Chain}, {MaxDepth}, {MaxPagesLimit}, 1, 0)

DigestSpec == InitDigest /\ [][NextDigest]_vars

----------------------------------------------------------------------------
(* The DOM diff engine (scraper/dom_diff.py).  A document is the sequence   *)
(* of the children of its body, each with its selector (tag, id, first      *)
(* class) and its text; the texts of the model are shorter than the 200     *)
(* characters extract_dom_structure keeps.                                  *)

Phrases == {"hi", "first paragraph", "other paragraph"}
Selectors == {"p", "div.note"}

\* len(phrase)
PhraseLen(w) == IF w = "hi" THEN 2 ELSE 15

\* len(text) of phrases joined by ' '
RECURSIVE TextLen(_)
TextLen(text) ==
    IF text = <<>> THEN 0
    ELSE PhraseLen(Head(text)) + (IF Len(text) > 1 THEN 1 ELSE 0) + TextLen(Tail(text))

\* if text and len(text) > 10
meaningful(text) == text # <<>> /\ TextLen(text) > 10

\* the body first, then its children, each when its text is meaningful
extract_dom_structure(html_content) ==
    LET body == [path |-> <<"body">>,
                 text |-> [i \in 1..Len(html_content) |-> html_content[i].text]]
        children == [i \in 1..Len(html_content) |->
                        [path |-> <<"body", html_content[i].selector>>,
                         text |-> <<html_content[i].text>>]]
    IN  SelectSeq(<<body>> \o children, LAMBDA e : meaningful(e.text))

\* {elem['path']: elem for elem in elements}: the last element of a path stays
path_dict(elements) ==
    [p \in {elements[i].path : i \in 1..Len(elements)} |->
        elements[CHOOSE i \in 1..Len(elements) :
                    /\ elements[i].path = p
                    /\ \A j \in 1..Len(elements) : elements[j].path = p => j <= i]]

compare_dom_structures(old_html, new_html) ==
    LET old_dict == path_dict(extract_dom_structure(old_html))
        new_dict == path_dict(extract_dom_structure(new_html))
        old_paths == DOMAIN old_dict
        new_paths == DOMAIN new_dict
    IN  [added |-> {[path |-> p, text |-> new_dict[p].text] : p \in new_paths \ old_paths},
         removed |-> {[path |-> p, text |-> old_dict[p].text] : p \in old_paths \ new_paths},
         modified |->
            {[path |-> p, old_text |-> old_dict[p].text, new_text |-> new_dict[p].text,
              similarity |-> <<"ratio", old_dict[p].text, new_dict[p].text>>] :
                p \in {q \in old_paths \cap new_paths : old_dict[q].text # new_dict[q].text}}]

----------------------------------------------------------------------------
(* Calls of the pure functions on the arguments of a bounded set *)

SeqsUpTo(S, n) == UNION {[1..k -> S] : k \in 0..n}

UrlChars == {"a", "/", "?", "#"}
HostChars == {"w", ".", "a"}

UrlInputs == {<<"https://", "a">> \o t : t \in SeqsUpTo(UrlChars, MaxUrlLen)}

UrlOfHost(h) == <<"https://">> \o h \o <<"/">>

\* host names: labels that are not empty, separated by dots
Hosts(n) ==
    {h \in SeqsUpTo(HostChars, n) \ {<<>>} :
        /\ h[1] # "." /\ h[Len(h)] # "."
        /\ \A i \in 1..(Len(h) - 1) : ~(h[i] = "." /\ h[i + 1] = ".")}

HostInputs ==
    {<<UrlOfHost(h1), UrlOfHost(h2)>> : h1 \in Hosts(MaxHostLen), h2 \in Hosts(MaxBaseLen)}

Documents == SeqsUpTo([selector : Selectors, text : Phrases], MaxSiblings)

Input(x) == [fn |-> "input", arg |-> <<>>, out |-> x, n |-> 0]

InitPure(inputs) ==
    /\ InitProgram({s \in InitSites : s.links = Chain}, {MaxDepth}, {MaxPagesLimit}, 0, 0)
    /\ pure \in {Input(x) : x \in inputs}

\* normalize_url applied to the URL at hand: an input or an earlier result
NormalizeUrl ==
    /\ pure.fn \in {"input", "normalize_url"}
    /\ pure.n < 2
    /\ pure' = [fn |-> "normalize_url", arg |-> pure.out, out |-> normalize_url(pure.out),
                n |-> pure.n + 1]
    /\ UNCHANGED progVars

UrlSpec == InitPure(UrlInputs) /\ [][NormalizeUrl]_vars

IsSameDomain ==
    /\ pure.fn = "input"
    /\ pure' = [fn |-> "is_same_domain", arg |-> pure.out,
                out |-> same_netloc(urlparse(pure.out[1]).netloc, urlparse(pure.out[2]).netloc),
                n |-> 1]
    /\ UNCHANGED progVars

HostSpec == InitPure(HostInputs) /\ [][IsSameDomain]_vars

CompareDomStructures ==
    /\ pure.fn = "input"
    /\ pure' = [fn |-> "compare_dom_structures", arg |-> pure.out,
                out |-> compare_dom_structures(pure.out[1], pure.out[2]), n |-> 1]
    /\ UNCHANGED progVars

DomSpec == InitPure(Documents \X Documents) /\ [][CompareDomStructures]_vars

----------------------------------------------------------------------------
(* Properties of the crawl *)

ScrapeCalls == {i \in 1..Len(calls) : calls[i].fn = "scrape_url"}
FetchedUrls == {calls[i].url : i \in {j \in ScrapeCalls : calls[j].status = "success"}}
RunChanges == get_run_changes(changes, cur.run_id)
\* the run of the job that ended
CurRun == get_run(runs, cur.run_id)
JobDone == pc = "done" /\ cur.mode = "job" /\ CurRun.status = "completed"
NoFaults == \A i \in 1..Len(calls) : calls[i].fault = "none"

\* C1: a crawl with max_pages = N marks at most N distinct URLs as visited, pages
\* and files together, and processes no URL a second time
C1_VisitBudget ==
    /\ Cardinality(visited) <= cur.max_pages
    /\ visited = {calls[i].url : i \in 1..Len(calls)}
    /\ Range(stats.urls) = visited
    /\ \A i, j \in 1..Len(calls) : i # j => calls[i].url # calls[j].url

\* the page budget stops a crawl whose frontier still holds URLs
C1_Witness ==
    /\ pc = "done" /\ queue # <<>>
    /\ cur.max_pages = MaxPagesLimit /\ Cardinality(visited) = MaxPagesLimit
    /\ \E i \in 1..Len(calls) : calls[i].fn = "download_file"

FrontierFresh ==
    /\ \A i \in 1..Len(queue) : queue[i].url \notin visited
    /\ \A i, j \in 1..Len(queue) : i # j => queue[i].url # queue[j].url

\* C2: every crawl ends, on every link graph and for every depth and page budget;
\* the frontier holds only URLs that are neither visited nor queued twice, and
\* the crawl ends with an empty frontier or with max_pages URLs visited
C2_Terminates ==
    /\ (pc = "crawl") ~> (pc = "done")
    /\ [](pc = "crawl" => FrontierFresh)
    /\ [](pc = "done" => (queue = <<>> \/ Cardinality(visited) = cur.max_pages))

\* a crawl of the dense cyclic graph has ended at its page budget
C2_Witness ==
    /\ pc = "done" /\ site.links = Dense
    /\ cur.max_pages >= 2 /\ Cardinality(visited) = cur.max_pages

\* C3: a URL with an allow-listed file extension goes to download_file, never to
\* scrape_url, and no link is enqueued from it
C3_FilesDownloaded ==
    /\ \A i \in 1..Len(calls) :
          is_file_url(calls[i].url) =>
              calls[i].fn = "download_file" /\ ~calls[i].expanded
    /\ \A u \in visited :
          is_file_url(u) => \E i \in 1..Len(calls) : calls[i].url = u

\* the file with the upper-case extension was downloaded
C3_Witness ==
    \E i \in 1..Len(calls) : calls[i].url = FileD /\ calls[i].fn = "download_file"

\* C4: no exception leaves scrape_url; every failure comes back as a result with
\* status error (or blocked) and an error message
C4_NoEscape ==
    /\ ~escaped
    /\ \A i \in ScrapeCalls :
          /\ calls[i].status \in {"success", "error", "blocked"}
          /\ calls[i].fault # "none" => calls[i].status = "error"
          /\ calls[i].status # "success" <=> calls[i].error

\* the write of the Change failed after the Page had been stored
C4_Witness ==
    \E i \in ScrapeCalls :
        /\ calls[i].fault = "add_change" /\ calls[i].status = "error"
        /\ \E j \in 1..Len(pages) : pages[j].url = calls[i].url

\* C5: every URL that failed (pipeline status error or blocked, or a failed file
\* download) is counted in the error statistics of the crawl
C5_FailuresCounted ==
    stats.pages_error = Cardinality({i \in 1..Len(calls) : calls[i].status # "success"})

PagesFor(P, domain_id, url) ==
    {i \in 1..Len(P) : P[i].domain_id = domain_id /\ P[i].url = url}

\* the step is a successful scrape_url of a URL that has no Page for the domain
FetchesUnknown ==
    /\ pc = "crawl" /\ Len(calls') = Len(calls) + 1
    /\ calls'[Len(calls')].fn = "scrape_url"
    /\ calls'[Len(calls')].status = "success"
    /\ PagesFor(pages, cur.domain_id, calls'[Len(calls')].url) = {}

\* C6: a successful fetch of a URL without a Page creates exactly one Page, and
\* exactly one Change of type new if and only if a run id was supplied; the first
\* run on an empty store records one new Change per fetched page and nothing else
C6_NewPage ==
    /\ [][FetchesUnknown =>
            LET url == calls'[Len(calls')].url
            IN  /\ Len(pages') = Len(pages) + 1
                /\ SubSeq(pages', 1, Len(pages)) = pages
                /\ Cardinality(PagesFor(pages', cur.domain_id, url)) = 1
                /\ IF cur.run_id # NoId
                   THEN /\ Len(changes') = Len(changes) + 1
                        /\ SubSeq(changes', 1, Len(changes)) = changes
                        /\ changes'[Len(changes')].change_type = "new"
                        /\ changes'[Len(changes')].run_id = cur.run_id
                        /\ changes'[Len(changes')].page_id = pages'[Len(pages')].id
                   ELSE changes' = changes]_vars
    /\ []((JobDone /\ before = <<>>) =>
            /\ Len(RunChanges) = Cardinality(FetchedUrls)
            /\ \A i \in 1..Len(RunChanges) : RunChanges[i].change_type = "new"
            /\ \A u \in FetchedUrls :
                  \E i \in 1..Len(RunChanges) :
                      get_page_by_id(pages, RunChanges[i].page_id).url = u)

\* a first run has recorded new pages, and a crawl without a run id has stored a
\* Page without a Change
C6_Witness ==
    /\ JobDone /\ Len(RunChanges) >= 2
    /\ \E i \in 1..Len(pages) :
          /\ pages[i].domain_id = "d2"
          /\ \A j \in 1..Len(changes) : changes[j].page_id # pages[i].id

\* C7: the second of two consecutive completed runs of a domain on an unchanged
\* site, with the same budgets, records no Change
C7_RepeatRunSilent ==
    (JobDone /\ repeat /\ NoFaults) => RunChanges = <<>>

RemovedChangesOf(page_id) ==
    {j \in 1..Len(changes) :
        /\ changes[j].run_id = cur.run_id
        /\ changes[j].page_id = page_id
        /\ changes[j].change_type = "removed"}

WasActive(i) == i <= Len(before) /\ before[i].is_active

\* C8: after the crawl of a run, every Page of the domain that was active before
\* the run and whose URL the crawl did not visit is inactive and has exactly one
\* removed Change of the run; no Page whose URL was visited is marked inactive
\* or has a removed Change
C8_RemovedDetection ==
    JobDone =>
        \A i \in 1..Len(pages) :
            pages[i].domain_id = cur.domain_id =>
                IF pages[i].url \in Range(stats.urls)
                THEN /\ RemovedChangesOf(pages[i].id) = {}
                     /\ (WasActive(i) \/ i > Len(before)) => pages[i].is_active
                ELSE WasActive(i) =>
                        /\ ~pages[i].is_active
                        /\ Cardinality(RemovedChangesOf(pages[i].id)) = 1

\* a run marked a page removed that it did not visit and kept a page it visited
C8_Witness ==
    /\ JobDone
    /\ \E i \in 1..Len(pages) :
          /\ WasActive(i) /\ pages[i].domain_id = cur.domain_id
          /\ pages[i].url \notin Range(stats.urls)
          /\ ~pages[i].is_active
    /\ \E i \in 1..Len(pages) :
          /\ WasActive(i) /\ pages[i].domain_id = cur.domain_id
          /\ pages[i].url \in Range(stats.urls)

\* C9: a page stored as active whose content was removed from the site before
\* the next run is marked inactive by that run and gets a removed Change
C9_RemovedContent ==
    JobDone =>
        \A i \in 1..Len(before) :
            ( /\ before[i].domain_id = cur.domain_id
              /\ before[i].is_active
              /\ site.status[before[i].url] = HttpNotFound )
            => /\ ~pages[i].is_active
               /\ RemovedChangesOf(pages[i].id) # {}


----------------------------------------------------------------------------
(* Properties of the store under concurrent writers *)

Quiet == \A t \in Threads : thr[t].pc = "idle"

\* C10: concurrent mutating operations on a record set are serialized as whole
\* read-modify-write units: the record set holds the effect of every operation
\* that completed, and no update is lost
C10_NoLostUpdate ==
    Quiet =>
        \A a \in acked :
            CASE a.op = "add_change" -> \E i \in 1..Len(changes) : changes[i].id = a.id
              [] a.op = "add_page" -> \E i \in 1..Len(pages) : pages[i].id = a.id
              [] OTHER -> \A i \in 1..Len(pages) : pages[i].id = a.id => ~pages[i].is_active

----------------------------------------------------------------------------
(* Properties of the Domains record set and its backing file *)

\* the email a stored Domain has for the email given to add_domain
StoredEmail(email) == IF email \in {None, ""} THEN EMAIL_TO ELSE email

\* C11 as stated: add_domain followed by get_domain with the returned id gives a
\* record with the same url, interval and email and a populated id; delete_domain
\* followed by get_domain gives None
C11_EmailAsGiven ==
    /\ ret.op = "add_domain" =>
          /\ ret.id # None /\ ret.got.id = ret.id
          /\ ret.got.url = ret.url
          /\ ret.got.interval_minutes = ret.interval
          /\ ret.got.email = ret.email
    /\ ret.op = "delete_domain" => ret.got = NoDomain

\* C11: add_domain followed by get_domain with the returned id gives a record
\* with a populated id, the same url and interval, and the email given or, when
\* the email given is empty or None, config.EMAIL_TO; delete_domain followed by
\* get_domain gives None
C11_AddGetDelete ==
    /\ ret.op = "add_domain" =>
          /\ ret.id # None /\ ret.got.id = ret.id
          /\ ret.got.url = ret.url
          /\ ret.got.interval_minutes = ret.interval
          /\ ret.got.email = StoredEmail(ret.email)
    /\ ret.op = "delete_domain" => ret.got = NoDomain

\* a Domain added by a request without an email, stored with the default
\* recipient, was deleted
C11_Witness ==
    /\ ret.op = "delete_domain" /\ ret.id # "d1" /\ ret.got = NoDomain
    /\ ret.was.email = EMAIL_TO

\* C12: a query on a record set whose backing file is missing or corrupt does
\* not raise and gives the empty result
C12_MissingFileReadsEmpty ==
    (ret.op \in {"get_domain", "get_all_domains"} /\ ret.state \in {"missing", "corrupt"}) =>
        /\ ~ret.raised
        /\ ret.result = IF ret.op = "get_domain" THEN <<NoDomain>> ELSE <<>>

\* get_domain was called on a corrupt file
C12_Witness ==
    ret.op = "get_domain" /\ ret.state = "corrupt" /\ ret.result = <<NoDomain>>

\* C13: save_json makes at most 3 write attempts, makes none after the first
\* that succeeds, and returns with file_lock released, also when all 3 fail
C13_SaveRetries ==
    /\ sv.attempts <= 3
    /\ sv.ok_at # 0 => (sv.attempts = sv.ok_at /\ sv.pc = "returned")
    /\ sv.pc = "try" => file_lock
    /\ sv.pc = "returned" => ~file_lock
    /\ (sv.pc = "returned" /\ sv.ok_at = 0) => sv.attempts = 3

\* all three attempts failed and save_json returned
C13_Witness ==
    sv.pc = "returned" /\ sv.ok_at = 0 /\ sv.attempts = 3 /\ ~file_lock

----------------------------------------------------------------------------
(* Properties of the store under concurrent writers, continued *)

\* C14: the Pages record set holds at most one Page per (domain_id, url), in
\* every interleaving of add_page, mark_page_removed and fix_missing_titles
C14_OnePagePerUrl ==
    \A i, j \in 1..Len(pages) :
        (pages[i].domain_id = pages[j].domain_id /\ pages[i].url = pages[j].url) => i = j

\* two add_page calls for the same URL overlapped: each created a Page
C14_Witness ==
    /\ Quiet /\ pages # <<>>
    /\ \E a, b \in acked : a.op = "add_page" /\ b.op = "add_page" /\ a.id # b.id
    /\ \E i \in 1..Len(pages) : pages[i].title # "No Title"

\* C16: every ScrapeRun whose job has finalized it has left status running
C16_RunFinalized ==
    Quiet =>
        \A a \in acked :
            a.op = "update_scrape_run" =>
                get_run(runs, a.id).status # "running"

----------------------------------------------------------------------------
(* Properties of the scheduler *)

JobsOf(d) == {i \in 1..Len(jobs) : jobs[i].id = job_id(d)}

\* C15: there is at most one recurring job per domain id, and its interval is
\* the one of the latest schedule_domain call for the domain
C15_OneJobPerDomain ==
    \A d \in DomainPool :
        /\ Cardinality(JobsOf(d)) <= 1
        /\ scheduled[d].interval = 0 => JobsOf(d) = {}
        /\ scheduled[d].interval # 0 =>
              \E i \in JobsOf(d) : jobs[i].interval = scheduled[d].interval

\* schedule(d, 30) was followed by schedule(d, 60)
C15_Witness ==
    /\ scheduled["d1"].interval = DefaultInterval
    /\ scheduled["d1"].replaced = DefaultInterval \div 2

\* C19: no two crawls of the same domain are in progress at the same time
C19_OneCrawlPerDomain ==
    \A i, j \in inst : i.domain_id = j.domain_id => i = j

----------------------------------------------------------------------------
(* Properties of the robots cache and of the notifications *)

\* C17: when the fetch of robots.txt failed, every URL of the host is allowed
C17_RobotsFailOpen ==
    site.robots # "served" =>
        \A i \in ScrapeCalls : calls[i].status # "blocked"

\* C18: a Change is flagged notified only when an alert that carried it was sent
C18_NotifiedAfterSend ==
    \A i \in 1..Len(changes) :
        changes[i].notified =>
            \E k \in 1..Len(outbox) :
                /\ outbox[k].kind = "alert" /\ outbox[k].sent
                /\ changes[i].id \in outbox[k].change_ids

RECURSIVE SumLen(_)
SumLen(groups) ==
    IF groups = <<>> THEN 0 ELSE Len(Head(groups).changes) + SumLen(Tail(groups))

GroupIds(g) == {c.id : c \in Range(g.changes)}

\* C20: the digest holds every Change detected in the 24 hours before it and no
\* older one, each in exactly one group of a domain, and its total_changes is
\* the sum of the sizes of its groups
C20_DigestComplete ==
    digest # NoDigest =>
        LET seen == SubSeq(changes, 1, digest.seen)
            recent == {c.id : c \in {x \in Range(seen) :
                                        x.detected_at >= digest.at - DigestHours}}
        IN  /\ \A id \in recent :
                  Cardinality({k \in 1..Len(digest.domains) :
                                  id \in GroupIds(digest.domains[k])}) = 1
            /\ \A k \in 1..Len(digest.domains) : GroupIds(digest.domains[k]) \subseteq recent
            /\ digest.total_changes = SumLen(digest.domains)

----------------------------------------------------------------------------
(* Properties of the pipeline and of the order of a crawl *)

\* the step is a call of scrape_url; LastCall is the call
Scraped == Len(calls') = Len(calls) + 1 /\ calls'[Len(calls')].fn = "scrape_url"
LastCall == calls'[Len(calls')]

\* C24: a 'modified' Change recorded with a baseline snapshot has its text
\* diff and a DOM-diff report of its Page in the alerts directory
C24_ModifiedArtifacts ==
    \A i \in 1..Len(changes) :
        (changes[i].change_type = "modified" /\ changes[i].similarity_score # NoPath) =>
            /\ changes[i].diff_path \in alertdir
            /\ \E f \in alertdir : f[1] = "dom_diff" /\ f[2] = changes[i].page_id

\* C25: no URL is processed deeper than max_depth; the base URL has depth 0;
\* links are enqueued only from a page fetched successfully above max_depth,
\* one level deeper; a URL is processed at the smallest depth it was found at
C25_DepthBound ==
    pc \in {"crawl", "done"} =>
        /\ \A i \in 1..Len(calls) :
              /\ calls[i].depth <= cur.max_depth
              /\ calls[i].expanded =>
                    calls[i].status = "success" /\ calls[i].depth < cur.max_depth
              /\ ~calls[i].expanded => calls[i].found = {}
              /\ IF i = 1 THEN calls[i].url = cur.base_url /\ calls[i].depth = 0
                 ELSE \E j \in 1..(i - 1) :
                        /\ calls[i].url \in calls[j].found
                        /\ calls[i].depth = calls[j].depth + 1
              /\ \A j \in 1..Len(calls) :
                    calls[i].url \in calls[j].found => calls[i].depth <= calls[j].depth + 1
        /\ \A i \in 1..Len(queue) :
              /\ queue[i].depth <= cur.max_depth
              /\ IF calls = <<>> THEN queue[i] = [url |-> cur.base_url, depth |-> 0]
                 ELSE \E j \in 1..Len(calls) :
                        /\ queue[i].url \in calls[j].found
                        /\ queue[i].depth = calls[j].depth + 1

\* a crawl reached max_depth on a page it fetched and did not expand, and a
\* link was found again from a deeper page
C25_Witness ==
    /\ pc = "done" /\ cur.max_depth >= 1
    /\ \E i \in 1..Len(calls) :
          /\ calls[i].depth = cur.max_depth /\ calls[i].status = "success"
          /\ ~calls[i].expanded /\ site.links[calls[i].url] # {}
    /\ \E i, j \in 1..Len(calls) :
          /\ calls[i].url \in calls[j].found /\ calls[i].depth < calls[j].depth + 1

\* C26: scrape_url on a URL the robots parser refuses returns 'blocked'
\* without the delay, without a request and without a snapshot, and no Page or
\* Change is created or updated
C26_BlockedDoesNothing ==
    [][(Scraped /\ ~can_fetch(get_robot_parser_for_domain(site.robots, site.disallowed),
                              LastCall.url)) =>
            /\ LastCall.status = "blocked"
            /\ ~LastCall.delayed /\ ~LastCall.fetched
            /\ UNCHANGED <<pages, changes, snapdir, alertdir, files, uuid>>]_vars

\* a URL robots.txt disallows was refused in a crawl that stored other pages
C26_Witness ==
    /\ site.robots = "served"
    /\ \E i \in 1..Len(calls) :
          calls[i].status = "blocked" /\ calls[i].url \in site.disallowed
    /\ \E i \in 1..Len(calls) : calls[i].status = "success"

\* C27: a fetch that finds the Page with the fingerprint it holds updates the
\* freshness timestamp of that Page and nothing else, and records no Change
C27_UnchangedOnlyTimestamp ==
    [][(/\ Scraped /\ LastCall.status = "success"
        /\ get_page_by_url(pages, cur.domain_id, LastCall.url) # NoPage
        /\ get_page_by_url(pages, cur.domain_id, LastCall.url).content_hash
              = compute_hash(site.text[LastCall.url])) =>
            /\ changes' = changes
            /\ Len(pages') = Len(pages)
            /\ \A i \in 1..Len(pages) :
                  [pages'[i] EXCEPT !.last_checked_at = pages[i].last_checked_at] = pages[i]]_vars

\* the place of the call that fetched the page of a Change
CallOf(c) ==
    CHOOSE i \in 1..Len(calls) : calls[i].url = get_page_by_id(pages, c.page_id).url

\* C28: the 'new' and 'modified' Changes of a run are in the order in which
\* their pages were processed, and every 'removed' Change of the run comes
\* after them and is created after the crawl loop
C28_ChangeOrder ==
    (cur.mode = "job" /\ pc \in {"crawl", "done"}) =>
        /\ \A i, j \in 1..Len(RunChanges) :
              i < j =>
                IF RunChanges[i].change_type = "removed"
                THEN RunChanges[j].change_type = "removed"
                ELSE RunChanges[j].change_type # "removed" =>
                        CallOf(RunChanges[i]) < CallOf(RunChanges[j])
        /\ pc = "crawl" => \A i \in 1..Len(RunChanges) : RunChanges[i].change_type # "removed"

\* a run recorded Changes of fetched pages and then a removal
C28_Witness ==
    /\ JobDone
    /\ Cardinality({i \in 1..Len(RunChanges) : RunChanges[i].change_type # "removed"}) >= 2
    /\ \E i \in 1..Len(RunChanges) : RunChanges[i].change_type = "removed"

\* C29: every attempt of save_json leaves the backing file either as it was
\* or holding the complete new record set, so that no stored record is lost
\* between the retries or when all of them fail
C29_AtomicReplace ==
    [][sv.pc = "try" =>
          \/ (fstate' = fstate /\ domains' = domains)
          \/ (fstate' = "ok" /\ domains' = sv.data)]_vars

\* the step is an invocation of scrape_domain_job
JobInvoked ==
    /\ ret'.op = "scrape_domain_job"
    /\ ret' # ret \/ Len(runs') > Len(runs)

\* C30: scrape_domain_job for a Domain that does not exist or is not active
\* creates no ScrapeRun, fetches nothing, creates no Page and no Change and
\* calls no Notifier
C30_SkippedJobDoesNothing ==
    [][(JobInvoked /\ (\/ get_domain(domains, ret'.id) = NoDomain
                        \/ ~get_domain(domains, ret'.id).is_active)) =>
            /\ ~ret'.started
            /\ UNCHANGED <<runs, pages, changes, files, snapdir, alertdir, outbox, calls,
                           uuid, pc, cur, queue, visited, stats>>]_vars

\* the job of a paused Domain that had been crawled before returned at once
C30_Witness ==
    /\ ret.op = "scrape_domain_job" /\ ~ret.started
    /\ get_domain(domains, ret.id) # NoDomain
    /\ ~get_domain(domains, ret.id).is_active
    /\ pages # <<>> /\ runs # <<>>

----------------------------------------------------------------------------
(* Properties of the pure functions *)

\* C21: normalize_url is idempotent: applied to a URL it has already
\* normalised, it returns that URL unchanged
C21_NormalizeIdempotent ==
    (pure.fn = "normalize_url" /\ pure.n = 2) => pure.out = pure.arg

\* removing one leading "www." label
StripLeadingWww(host) ==
    IF Len(host) >= Len(www) /\ SubSeq(host, 1, Len(www)) = www
    THEN SubSeq(host, Len(www) + 1, Len(host)) ELSE host

\* C22: is_same_domain is true exactly when the two hosts are equal after a
\* leading "www." label is removed from each
C22_SameDomainLeadingWww ==
    pure.fn = "is_same_domain" =>
        (pure.out <=> StripLeadingWww(urlparse(pure.arg[1]).netloc)
                        = StripLeadingWww(urlparse(pure.arg[2]).netloc))

\* the elements of a path, in document order
Occ(elements, p) == SelectSeq(elements, LAMBDA e : e.path = p)

\* C23: an element only in the new document is reported in 'added', one only
\* in the old document in 'removed', and one in both whose text changed in
\* 'modified', also when siblings share a path; the k-th element of a path in
\* one document is the k-th element of that path in the other
C23_DomDiffClassifies ==
    pure.fn = "compare_dom_structures" =>
        LET old == extract_dom_structure(pure.arg[1])
            new == extract_dom_structure(pure.arg[2])
            paths == {old[i].path : i \in 1..Len(old)} \cup {new[i].path : i \in 1..Len(new)}
            OnlyNew(p) == {Occ(new, p)[k].text :
                            k \in (Len(Occ(old, p)) + 1)..Len(Occ(new, p))}
            OnlyOld(p) == {Occ(old, p)[k].text :
                            k \in (Len(Occ(new, p)) + 1)..Len(Occ(old, p))}
            Shared(p) == {k \in 1..Len(Occ(old, p)) : k <= Len(Occ(new, p))}
        IN  /\ \A p \in paths :
                /\ \A t \in OnlyNew(p) : [path |-> p, text |-> t] \in pure.out.added
                /\ \A t \in OnlyOld(p) : [path |-> p, text |-> t] \in pure.out.removed
                /\ \A k \in Shared(p) :
                      Occ(old, p)[k].text # Occ(new, p)[k].text =>
                        \E m \in pure.out.modified :
                            /\ m.path = p
                            /\ m.old_text = Occ(old, p)[k].text
                            /\ m.new_text = Occ(new, p)[k].text
            /\ \A a \in pure.out.added : a.text \in OnlyNew(a.path)
            /\ \A r \in pure.out.removed : r.text \in OnlyOld(r.path)

----------------------------------------------------------------------------
(* Properties of the finished run *)

\* the messages handed to the Notifier for a run
RunMessages(run_id) == SelectSeq(outbox, LAMBDA m : m.run_id = run_id)
\* the Changes recorded with a run id, by type
ChangesOf(run_id, types) ==
    {i \in 1..Len(changes) : changes[i].run_id = run_id /\ changes[i].change_type \in types}
ChangeTypes == {"new", "modified", "removed"}
CompletedRuns == {i \in 1..Len(runs) : runs[i].status = "completed"}

\* C31: every run that finishes its crawl hands exactly one message to the
\* Notifier: an alert carrying exactly the Changes of the run when new + modified
\* + removed > 0, a completion notice otherwise
C31_OneMessagePerRun ==
    \A i \in CompletedRuns :
        LET r == runs[i]
            msgs == RunMessages(r.id)
        IN  /\ Len(msgs) = 1
            /\ IF r.pages_new + r.pages_changed + r.pages_removed > 0
               THEN /\ msgs[1].kind = "alert"
                    /\ msgs[1].change_ids =
                          {changes[c].id : c \in ChangesOf(r.id, ChangeTypes)}
                    /\ msgs[1].change_ids # {}
               ELSE msgs[1].kind = "completion"

C31_Witness ==
    /\ \E i \in CompletedRuns : RunMessages(runs[i].id)[1].kind = "completion"
    /\ \E i \in CompletedRuns :
          /\ RunMessages(runs[i].id)[1].kind = "alert"
          /\ Cardinality(ChangesOf(runs[i].id, ChangeTypes)) > 1

----------------------------------------------------------------------------
(* Properties of the directories *)

\* the directory an execution of the job starts to write in: that of the URL
\* of its Domain
DirOf(i) == domain_name(get_domain(domains, i.domain_id).url)

\* C32: crawls of two different Domain records that run at the same time
\* never write snapshot or attachment files into the same directory
C32_DirectoryPerDomain ==
    \A i, j \in inst :
        /\ get_domain(domains, i.domain_id) # NoDomain
        /\ get_domain(domains, j.domain_id) # NoDomain
        /\ i.domain_id # j.domain_id
        => DirOf(i) # DirOf(j)

----------------------------------------------------------------------------
(* Properties of the snapshots *)

\* the URL of the Page a Change is about
ChangeUrl(P, c) == LET S == {i \in 1..Len(P) : P[i].id = c.page_id}
                   IN  IF S = {} THEN None ELSE P[CHOOSE i \in S : TRUE].url
\* the files of the snapshot directory a path names
FilesAt(S, path) == {k \in 1..Len(S) : <<S[k].name>> = path}

\* C33: the baseline (old_snapshot) of a 'modified' Change is the text snapshot
\* of an earlier fetch of the same page URL, never that of another page
C33_BaselineOfSamePage ==
    [][\A i \in (Len(changes) + 1)..Len(changes') :
          changes'[i].change_type = "modified" /\ changes'[i].old_snapshot # NoPath =>
              \A k \in FilesAt(snapdir', changes'[i].old_snapshot) :
                  snapdir'[k].url = ChangeUrl(pages', changes'[i])]_vars

----------------------------------------------------------------------------
(* Properties of the Pages after a run *)

\* C34: after a completed run every Page whose URL the run fetched
\* successfully is active, also a Page that an earlier run marked removed
C34_FetchedIsActive ==
    JobDone =>
        \A u \in FetchedUrls :
            LET page == get_page_by_url(pages, cur.domain_id, u)
            IN  page # NoPage /\ page.is_active

----------------------------------------------------------------------------
(* Properties of the status of a run *)

\* C35: the status of a run moves only from running to completed or from
\* running to failed; a run that is completed or failed keeps its status, also
\* when a step after the finalization fails
C35_StatusFinal ==
    [][\A i \in 1..Len(runs) :
          /\ i <= Len(runs')
          /\ runs[i].status \in {"completed", "failed"} =>
                runs'[i].status = runs[i].status]_vars

\* C36: the counters pages_new, pages_changed and pages_removed of a completed
\* run equal the numbers of Changes of type new, modified and removed recorded
\* with the id of the run
C36_CountersMatchChanges ==
    \A i \in CompletedRuns :
        /\ runs[i].pages_new = Cardinality(ChangesOf(runs[i].id, {"new"}))
        /\ runs[i].pages_changed = Cardinality(ChangesOf(runs[i].id, {"modified"}))
        /\ runs[i].pages_removed = Cardinality(ChangesOf(runs[i].id, {"removed"}))

C36_Witness ==
    \E i, j \in CompletedRuns :
        /\ runs[i].pages_new > 1
        /\ runs[j].pages_changed > 0 /\ runs[j].pages_removed > 0

----------------------------------------------------------------------------
(* Properties of the downloads *)

\* C37: files_downloaded grows by the number of FileRecords a step of the
\* crawl creates: a download that fails creates no FileRecord and is not counted
C37_DownloadsCounted ==
    [][pc = "crawl" /\ pc' = "crawl" =>
          stats'.files_downloaded - stats.files_downloaded = Len(files') - Len(files)]_vars

----------------------------------------------------------------------------
(* Properties of the references between the record sets *)

\* C38: in every reachable state, also with concurrent runs of one domain,
\* the page_id of every Change is the id of a Page of the Pages record set
C38_ChangeHasPage ==
    \A i \in 1..Len(changes) : \E j \in 1..Len(pages) : pages[j].id = changes[i].page_id

\* C39: the snapshot file a Change names as new_snapshot holds the text fetched
\* for the page of the Change: no fetch of another URL writes over it
C39_SnapshotOfChange ==
    \A i \in 1..Len(changes) :
        changes[i].new_snapshot # NoPath =>
            \A k \in FilesAt(snapdir, changes[i].new_snapshot) :
                snapdir[k].url = ChangeUrl(pages, changes[i])

----------------------------------------------------------------------------
(* Properties of the dashboard *)

====
